---- MODULE Spec2Model ----
(***************************************************************************)
(* State-machine model of the subtitle pipeline orchestrator               *)
(* (src/pipeline/run.py), its two entry points run_pipeline_with_config    *)
(* and run_pipeline, and the command-line wrappers that call them          *)
(* (src/main.py, src/pipeline/run.py main).                                *)
(*                                                                         *)
(* One run processes one video.  Each action is one stage of the           *)
(* orchestrator function: the adapter call of the stage (whose outcome,    *)
(* success or an exception, is a nondeterministic input) together with     *)
(* every assignment and file write the orchestrator makes around it.       *)
(* Python exceptions are modelled by what they do to the run: an exception *)
(* that no try/except of the orchestrator catches ends the run in          *)
(* pc = "aborted" with no manifest.                                        *)
(*                                                                         *)
(* Times are integer milliseconds.  Python None is the string "None".      *)
(***************************************************************************)
EXTENDS Integers, Sequences, FiniteSets, TLC

VARIABLES
    entry,        \* "config": run_pipeline_with_config, "legacy": run_pipeline
    caller,       \* "api" (called as a library), "main" (src/main.py), "run_main" (src/pipeline/run.py main)
    config,       \* the settings the run is given (Config fields / run_pipeline parameters)
    pc,           \* position of the run in the orchestrator function
    err,          \* the exception that ended the run: [kind, site, stage, byAdapter]
    raised,       \* the stages whose adapter call raised, caught or not
    callLog,      \* the adapters invoked so far, in order
    args,         \* the argument each adapter was handed
    fs,           \* the file system: path -> content
    loc,          \* the local variables of the orchestrator function
    manifest,     \* the dictionary the run returned (NoManifest until it returns)
    exitCode,     \* process exit code of a CLI caller (-1: still running / not a process)
    printed,      \* what a CLI caller printed: "none", "error", "result"
    run,          \* number of the current run over the same Work Item (1, 2, ...)
    fetches,      \* how many times the media was downloaded so far
    prior,        \* what the current run found when it started: [paths, fetches]
    call          \* a call of a utility function on its own: [fn, input, output, done]

vars == << entry, caller, config, pc, err, raised, callLog, args, fs, loc,
           manifest, exitCode, printed, run, fetches, prior, call >>

(***************************************************************************)
(* Bounds and data                                                         *)
(***************************************************************************)

\* Longest segment list a backend returns in the model.
MaxSegs == 2

\* Most runs made over the same Work Item.
MaxRuns == 2

Seg(s, e, t) == [start |-> s, end |-> e, text |-> t]

\* Segments an ASR backend may report, in chronological order.
AsrPool == << Seg(0, 1200, "hello everbody"), Seg(1200, 2600, "im your host"),
              Seg(2600, 4000, "where talking"), Seg(4000, 5500, "its a feel") >>

\* Segments a language-model backend may answer with (corrected text).
LlmPool == << Seg(0, 1200, "Hello everybody."), Seg(1200, 2600, "I'm your host."),
              Seg(2600, 4000, "We're talking."), Seg(4000, 5500, "It's a field.") >>

Prefixes(pool) == { SubSeq(pool, 1, n) : n \in 0..MaxSegs }

\* What transcribe_with_whisper / transcribe_with_groq may return as segments.
AsrOutputs == Prefixes(AsrPool)

\* What enhance_with_groq may return: the backend's answer is not checked
\* against the input, so any list is possible (same count or not).
LlmOutputs == Prefixes(LlmPool)

VideoId == "X"

None == "None"

NoErr == [kind |-> "none", site |-> "none", stage |-> "none", byAdapter |-> FALSE]

NoManifest == [k \in {} |-> None]

\* No utility function is being called on its own (a pipeline run).
NoCall == [fn |-> "none", input |-> None, output |-> None, done |-> FALSE]

\* Fields the WorkDirs dataclass declares and ensure_workdirs fills.
WorkDirsFields == { "root", "video_dir", "audio_dir", "transcripts_dir",
                    "enhanced_dir", "subtitled_dir" }

\* Fields the AudioConfig dataclass declares.
AudioConfigFields == { "sample_rate", "mono" }

\* Names src/translator/translate_transcript.py defines at module level.
TranslatorModuleNames == { "get_translation_system_prompt", "translate_with_openai", "main" }

\* Names src/separator/separate_audio.py defines at module level.
SeparatorModuleNames == { "check_gpu_availability", "AudioSeparator", "separate_audio_file",
                          "list_available_models", "print_available_models" }

\* Positional parameters of transcribe_with_whisper(audio_path, config).
WhisperArity == 2

(***************************************************************************)
(* Paths of the Work Item outputs/<video_id>/ (src/utils/paths.py) and of  *)
(* the temporary download directory.                                       *)
(***************************************************************************)

TmpVideo       == "tmp_downloads/X.mp4"
RootDir        == "outputs/X"
VideoDir       == "outputs/X/video"
AudioDir       == "outputs/X/audio"
TranscriptsDir == "outputs/X/transcripts"
EnhancedDir    == "outputs/X/enhanced"
SubtitledDir   == "outputs/X/subtitled"
SeparatedDir   == "outputs/X/separated"
TranslatedDir  == "outputs/X/translated"
WorkVideo      == "outputs/X/video/X.mp4"
MetadataPath   == "outputs/X/metadata.json"
AudioPath      == "outputs/X/audio/audio.wav"
VocalsPath     == "outputs/X/separated/vocals.wav"
EnhancedJson   == "outputs/X/enhanced/enhanced.json"
EnhancedSrt    == "outputs/X/enhanced/enhanced.srt"
SoftVideo      == "outputs/X/subtitled/with_subtitles_soft.mp4"
BurnedVideo    == "outputs/X/subtitled/with_subtitles_burned.mp4"

AsrJsonPath(backend) ==
    IF backend = "local" THEN "outputs/X/transcripts/asr_local.json"
    ELSE "outputs/X/transcripts/asr_groq.json"

AsrSrtPath(backend) ==
    IF backend = "local" THEN "outputs/X/transcripts/asr_local.srt"
    ELSE "outputs/X/transcripts/asr_groq.srt"

\* lang_code = target_language.lower().replace(" ", "_"), on the languages of the model
LangCode(lang) ==
    CASE lang = "Spanish" -> "spanish"
      [] lang = "Brazilian Portuguese" -> "brazilian_portuguese"
      [] OTHER -> lang

TranslatedJson(lang) ==
    CASE LangCode(lang) = "spanish" -> "outputs/X/translated/translated_spanish.json"
      [] LangCode(lang) = "brazilian_portuguese" -> "outputs/X/translated/translated_brazilian_portuguese.json"
      [] OTHER -> "outputs/X/translated/translated_.json"

TranslatedSrt(lang) ==
    CASE LangCode(lang) = "spanish" -> "outputs/X/translated/translated_spanish.srt"
      [] LangCode(lang) = "brazilian_portuguese" -> "outputs/X/translated/translated_brazilian_portuguese.srt"
      [] OTHER -> "outputs/X/translated/translated_.srt"

TranscriptPaths == { AsrJsonPath("local"), AsrSrtPath("local"), AsrJsonPath("groq"), AsrSrtPath("groq") }
EnhancedPaths   == { EnhancedJson, EnhancedSrt }
TranslatedPaths == { TranslatedJson("Spanish"), TranslatedSrt("Spanish") }
SubtitledPaths  == { SoftVideo, BurnedVideo }

(***************************************************************************)
(* File system helpers                                                     *)
(***************************************************************************)

Exists(f, path) == path \in DOMAIN f

\* open(path, "w") + write: creates or overwrites
WriteFile(f, path, content) ==
    [p \in DOMAIN f \cup {path} |-> IF p = path THEN content ELSE f[p]]

RemoveFile(f, path) == [p \in DOMAIN f \ {path} |-> f[p]]

\* os.makedirs(path, exist_ok=True) for each path: existing entries are kept
MakeDirs(f, paths) ==
    [p \in DOMAIN f \cup paths |-> IF p \in DOMAIN f THEN f[p] ELSE "dir"]

\* shutil.move(src, dst): dst gets the content, src is gone
MoveFile(f, src, dst) == RemoveFile(WriteFile(f, dst, f[src]), src)

EmptyFs == [p \in {} |-> "dir"]

(***************************************************************************)
(* Inputs                                                                  *)
(***************************************************************************)

\* "other" stands for any selector string that is neither "local" nor "groq"
\* (for instance "openai", or the None an omitted legacy CLI flag yields).
AsrBackends == { "local", "groq", "other" }
LlmBackends == { "groq", "other" }
TargetLanguages == { "", "Spanish" }
SubtitleModes == { "soft", "burn" }

\* subtitle_mode of the legacy run_pipeline: "other" stands for any value
\* that is not "soft" or "burn", such as the None an omitted --subtitle-mode
\* flag yields.
LegacySubtitleModes == SubtitleModes \cup { "other" }

\* The box opacity handed to burn_subtitles, in tenths: a number, or None
\* (given FALSE), which an omitted --box-opacity flag of the legacy command
\* line yields.  A Configuration holds a number.
OpacityNumber == [given |-> TRUE, value |-> 6]
OpacityNone == [given |-> FALSE, value |-> 0]

\* config.processing.audio.separation.  AudioConfig declares no such field
\* (AudioConfigFields), so on every Config that Config() or load_config
\* builds the attribute is "absent".  "disabled" / "enabled" is a
\* configuration object to which the caller attached a `separation`
\* attribute (with .enabled False / True) before calling the library.
SeparationAttrs == { "absent", "disabled", "enabled" }

\* Configurations run_pipeline_with_config can be called with.
ConfigInputs ==
    [ asr_backend : AsrBackends, llm_backend : LlmBackends,
      enhancer_enabled : BOOLEAN, translator_enabled : BOOLEAN,
      target_language : TargetLanguages, subtitles_mode : SubtitleModes,
      box_opacity : { OpacityNumber },
      separation : SeparationAttrs, env_separation : {FALSE} ]

\* A Config as Config() / load_config build it and the CLI flags can change it:
\* the validated selectors, and no `separation` attribute.
IsLoadedConfig(c) ==
    /\ c.asr_backend \in { "local", "groq" }
    /\ c.separation = "absent"

\* Parameters of the legacy run_pipeline(url, asr_backend, whisper_model,
\* llm_backend, subtitle_mode, target_lang, box_opacity, input_language) and the
\* ENABLE_AUDIO_SEPARATION environment variable it reads.  The fields
\* run_pipeline does not have are fixed.
LegacyInputs ==
    [ asr_backend : AsrBackends, llm_backend : LlmBackends,
      enhancer_enabled : {TRUE}, translator_enabled : {FALSE},
      target_language : TargetLanguages, subtitles_mode : LegacySubtitleModes,
      box_opacity : { OpacityNumber, OpacityNone },
      separation : {"absent"}, env_separation : BOOLEAN ]

InitLoc ==
    [ title |-> None, dl_video_path |-> None, video_path |-> None, audio_path |-> None,
      transcription_audio_path |-> None, separation_results |-> {},
      asr_segments |-> << >>, asr_json_path |-> None, asr_srt_path |-> None,
      enhanced_segments |-> << >>, enhanced_json_path |-> None, enhanced_srt_path |-> None,
      segments_for_next_step |-> << >>, srt_for_next_step |-> None,
      final_segments |-> << >>, final_srt_path |-> None,
      translated_json_path |-> None, translated_srt_path |-> None,
      final_video |-> None ]

InitArgs ==
    [ extract_video |-> None, transcribe_audio |-> None, enhance_segments |-> << >>,
      translate_segments |-> << >>, render_video |-> None, render_srt |-> None,
      render_mode |-> None ]

\* The Work Item before the run: nothing yet, or the media and metadata a
\* previous run left under outputs/X/.
InitialFileSystems ==
    { EmptyFs,
      WriteFile(WriteFile(MakeDirs(EmptyFs, {RootDir, VideoDir, AudioDir, TranscriptsDir,
                                             EnhancedDir, SubtitledDir}),
                          WorkVideo, "media"),
                MetadataPath, [video_id |-> VideoId, title |-> "T"]) }

Init ==
    /\ entry \in { "config", "legacy" }
    /\ caller \in { "api", "main", "run_main" }
    /\ caller = "main" => entry = "config"
    /\ config \in (IF entry = "config" THEN ConfigInputs ELSE LegacyInputs)
    /\ (entry = "config" /\ caller # "api") => IsLoadedConfig(config)
    /\ pc = "start"
    /\ err = NoErr
    /\ raised = {}
    /\ callLog = << >>
    /\ args = InitArgs
    /\ fs \in InitialFileSystems
    /\ loc = InitLoc
    /\ manifest = NoManifest
    /\ exitCode = -1
    /\ printed = "none"
    /\ run = 1
    /\ fetches = 0
    /\ prior = [paths |-> DOMAIN fs, fetches |-> 0]
    /\ call = NoCall

(***************************************************************************)
(* Exceptions                                                              *)
(***************************************************************************)

\* An exception leaves the orchestrator function: nothing after the raising
\* statement runs and the function returns no value.  `stage` is the stage
\* of the orchestrator in which it was raised; byAdapter tells whether the
\* stage's adapter raised it (otherwise a statement of the orchestrator did).
Raise(stage, byAdapter, kind, site) ==
    /\ pc' = "aborted"
    /\ raised' = (IF byAdapter THEN raised \cup {stage} ELSE raised)
    /\ err' = [kind |-> kind, site |-> site, stage |-> stage, byAdapter |-> byAdapter]
    /\ manifest' = NoManifest

\* What no stage of the orchestrator changes.
Frame == UNCHANGED << entry, caller, config, exitCode, printed, run, fetches, prior, call >>

(***************************************************************************)
(* Stage 1: acquisition (download_youtube), relocation into video/ and     *)
(* metadata.json.  The code is the same in both entry points.              *)
(***************************************************************************)

\* Mutant of check_video_exists: the probe stops at the video/ directory and
\* does not look for the media file in it.
check_video_exists_DirOnly(f) ==
    IF ~ Exists(f, RootDir) THEN FALSE
    ELSE Exists(f, VideoDir)

\* Mutant of check_video_exists: the probe looks for the media directly under
\* the Work Item root instead of under video/.
check_video_exists_WrongDir(f) ==
    IF ~ Exists(f, RootDir) THEN FALSE
    ELSE Exists(f, "outputs/X/X.mp4")

\* check_video_exists(video_id)
check_video_exists(f) ==
    IF ~ Exists(f, RootDir) THEN FALSE
    ELSE IF ~ Exists(f, VideoDir) THEN FALSE
    ELSE Exists(f, WorkVideo)

\* The paths ensure_workdirs creates, in the order of the loop of line 33
WorkDirList == << RootDir, VideoDir, AudioDir, TranscriptsDir, EnhancedDir, SubtitledDir >>

\* The WorkDirs object ensure_workdirs returns
WorkDirs ==
    [ root |-> RootDir, video_dir |-> VideoDir, audio_dir |-> AudioDir,
      transcripts_dir |-> TranscriptsDir, enhanced_dir |-> EnhancedDir,
      subtitled_dir |-> SubtitledDir ]

\* What a call that raised returns: nothing
NoWorkDirs == [k \in {} |-> None]

\* Mutant of makedirs: exist_ok is not passed, an existing path is an error.
makedirs_NoExistOk(f, path) ==
    IF Exists(f, path) THEN [fs |-> f, ok |-> FALSE]
    ELSE [fs |-> MakeDirs(f, { path }), ok |-> TRUE]

\* os.makedirs(path, exist_ok=True): an existing directory is left alone, an
\* existing non-directory raises FileExistsError
makedirs(f, path) ==
    IF Exists(f, path) THEN [fs |-> f, ok |-> f[path] = "dir"]
    ELSE [fs |-> MakeDirs(f, { path }), ok |-> TRUE]

\* The loop of lines 33-34 from its i-th path on: stops at the first failure
RECURSIVE MakeAll(_, _, _)
MakeAll(f, paths, i) ==
    IF i > Len(paths) THEN [fs |-> f, ok |-> TRUE]
    ELSE LET r == makedirs(f, paths[i])
         IN IF r.ok THEN MakeAll(r.fs, paths, i + 1) ELSE [fs |-> r.fs, ok |-> FALSE]

\* ensure_workdirs(video_id): the file system it leaves, the WorkDirs it
\* returns, or the exception it raises
ensure_workdirs_result(f) ==
    LET r == MakeAll(f, WorkDirList, 1)
    IN [ fs |-> r.fs,
         error |-> IF r.ok THEN "none" ELSE "FileExistsError",
         ret |-> IF r.ok THEN WorkDirs ELSE NoWorkDirs ]

\* ensure_workdirs(video_id): creates the root and the five subdirectories
ensure_workdirs(f) == ensure_workdirs_result(f).fs

\* The title download_youtube returns: the stored one for an existing video
\* whose metadata.json has a title, otherwise what the site reports (maybe None).
DownloadTitles(f) ==
    IF check_video_exists(f) /\ Exists(f, MetadataPath) /\ f[MetadataPath].title # None
    THEN { f[MetadataPath].title }
    ELSE { None, "T" }

\* File system after download_youtube returned: an existing video is left
\* alone, a new one lands in the temporary download directory.
download_youtube(f) ==
    IF check_video_exists(f) THEN f ELSE WriteFile(f, TmpVideo, "media")

\* Number of downloads (extract_info(url, download=True)) the call performs
Downloads(f) == IF check_video_exists(f) THEN 0 ELSE 1

\* video_path download_youtube returns
DownloadedPath(f) == IF check_video_exists(f) THEN WorkVideo ELSE TmpVideo

\* Mutant of Relocate: the download is copied into video/ and stays in the
\* temporary download directory.
Relocate_Copies(f, video_path) ==
    IF video_path # WorkVideo
    THEN (IF Exists(f, video_path) THEN WriteFile(f, WorkVideo, f[video_path]) ELSE f)
    ELSE f

\* Lines 45-54: move the media into video/ unless it is already there.
Relocate(f, video_path) ==
    IF video_path # WorkVideo
    THEN (IF Exists(f, video_path) THEN MoveFile(f, video_path, WorkVideo) ELSE f)
    ELSE f

\* Lines 56-59: save/update metadata.json
SaveMetadata(f, title) ==
    IF ~ Exists(f, MetadataPath) \/ title # None
    THEN WriteFile(f, MetadataPath, [video_id |-> VideoId, title |-> title])
    ELSE f

AcquireStep(site) ==
    /\ pc = "start"
    /\ callLog' = Append(callLog, "Acquire")
    /\ UNCHANGED << entry, caller, config, exitCode, printed, run, prior, call >>
    /\ UNCHANGED args
    /\ LET f0 == MakeDirs(fs, { "tmp_downloads" }) IN
       \/ /\ Raise("Acquire", TRUE, "DownloadError", site)
          /\ fs' = f0
          /\ UNCHANGED << loc, fetches >>
       \/ \E title \in DownloadTitles(f0) :
            LET video_path == DownloadedPath(f0)
                f1 == ensure_workdirs(download_youtube(f0))
                f2 == Relocate(f1, video_path)
            IN /\ fs' = SaveMetadata(f2, title)
               /\ fetches' = fetches + Downloads(f0)
               /\ loc' = [loc EXCEPT !.title = title, !.dl_video_path = video_path,
                                     !.video_path = WorkVideo]
               /\ pc' = "acquired"
               /\ UNCHANGED << err, raised, manifest >>

Acquire == entry = "config" /\ AcquireStep("run.py:39")

(***************************************************************************)
(* Stage 2: audio extraction (extract_audio -> run_cmd)                    *)
(***************************************************************************)

ExtractStep ==
    /\ pc = "acquired"
    /\ callLog' = Append(callLog, "ExtractAudio")
    /\ args' = [args EXCEPT !.extract_video = loc.video_path]
    /\ Frame
    /\ \/ /\ Raise("ExtractAudio", TRUE, "RuntimeError", "ffmpeg_utils.py:16")
          /\ UNCHANGED << fs, loc >>
       \/ /\ fs' = WriteFile(fs, AudioPath, "audio")
          /\ loc' = [loc EXCEPT !.audio_path = AudioPath]
          /\ pc' = "extracted"
          /\ UNCHANGED << err, raised, manifest >>

ExtractAudio == entry = "config" /\ ExtractStep

(***************************************************************************)
(* Stage 2.5 of run_pipeline_with_config: audio separation (lines 73-117)  *)
(***************************************************************************)

\* Stem sets separate_audio_file may return (stem name -> file).
SeparationOutputs == { {}, { "instrumental" }, { "vocals", "instrumental" } }

\* Whether evaluating config.processing.audio.separation succeeds.
HasSeparationAttr(c) == "separation" \in AudioConfigFields \/ c.separation # "absent"

\* Lines 96-100 and 107-109: the audio handed to ASR after a separation that returned
TranscriptionAudio(enabled, results, audio_path) ==
    IF enabled /\ "vocals" \in results THEN VocalsPath ELSE audio_path

SeparateAudio ==
    /\ entry = "config"
    /\ pc = "extracted"
    /\ Frame
    /\ UNCHANGED << args >>
    /\ IF ~ HasSeparationAttr(config)
       THEN \* line 77: AttributeError, outside any try
            /\ Raise("SeparateAudio", FALSE, "AttributeError", "run.py:77")
            /\ loc' = [loc EXCEPT !.transcription_audio_path = loc.audio_path]
            /\ UNCHANGED << callLog, fs >>
       ELSE IF config.separation = "enabled"
       THEN IF "separated_dir" \notin WorkDirsFields
            THEN \* line 80: work.separated_dir, before the try of line 81
                 /\ Raise("SeparateAudio", FALSE, "AttributeError", "run.py:80")
                 /\ loc' = [loc EXCEPT !.transcription_audio_path = loc.audio_path]
                 /\ UNCHANGED << callLog, fs >>
            ELSE /\ callLog' = Append(callLog, "SeparateAudio")
                 /\ pc' = "separated"
                 /\ UNCHANGED << err, manifest >>
                 /\ \/ \* the adapter raised: caught at line 111
                       /\ raised' = raised \cup { "SeparateAudio" }
                       /\ loc' = [loc EXCEPT !.transcription_audio_path = loc.audio_path]
                       /\ UNCHANGED fs
                    \/ \E results \in SeparationOutputs :
                         /\ UNCHANGED raised
                         /\ fs' = (IF "vocals" \in results
                                   THEN WriteFile(fs, VocalsPath, "audio") ELSE fs)
                         /\ loc' = [loc EXCEPT
                                      !.separation_results = results,
                                      !.transcription_audio_path =
                                          TranscriptionAudio(TRUE, results, loc.audio_path)]
       ELSE /\ loc' = [loc EXCEPT !.transcription_audio_path = loc.audio_path]
            /\ pc' = "separated"
            /\ UNCHANGED << callLog, fs, err, raised, manifest >>

(***************************************************************************)
(* Stage 3 of run_pipeline_with_config: transcription (lines 119-143)      *)
(***************************************************************************)

\* Mutant of WriteAsr: the SRT file of the transcript is not written.
WriteAsr_JsonOnly(f, backend, segments) ==
    WriteFile(f, AsrJsonPath(backend), [segments |-> segments])

\* write_json(asr_json_path, asr_json); write_srt(asr_srt_path, asr_json["segments"])
WriteAsr(f, backend, segments) ==
    WriteFile(WriteFile(f, AsrJsonPath(backend), [segments |-> segments]),
              AsrSrtPath(backend), segments)

\* The branch of lines 122 / 132 / 142
AsrBranch(backend) ==
    IF backend = "local" THEN "local"
    ELSE IF backend = "groq" THEN "groq"
    ELSE "unknown"

\* Mutant of TranscribeWith: a failing transcription is swallowed and the run
\* goes on with an empty transcript.
TranscribeWith_Swallowed(backend, site) ==
    /\ callLog' = Append(callLog, "Transcribe")
    /\ args' = [args EXCEPT !.transcribe_audio = loc.transcription_audio_path]
    /\ \E failed \in BOOLEAN, segments \in AsrOutputs :
         /\ failed => segments = << >>
         /\ raised' = (IF failed THEN raised \cup { "Transcribe" } ELSE raised)
         /\ fs' = WriteAsr(fs, backend, segments)
         /\ loc' = [loc EXCEPT !.asr_segments = segments,
                               !.asr_json_path = AsrJsonPath(backend),
                               !.asr_srt_path = AsrSrtPath(backend)]
         /\ pc' = "transcribed"
         /\ UNCHANGED << err, manifest >>

TranscribeWith(backend, site) ==
    /\ callLog' = Append(callLog, "Transcribe")
    /\ args' = [args EXCEPT !.transcribe_audio = loc.transcription_audio_path]
    /\ \/ /\ Raise("Transcribe", TRUE, "BackendError", site)
          /\ UNCHANGED << fs, loc >>
       \/ \E segments \in AsrOutputs :
            /\ fs' = WriteAsr(fs, backend, segments)
            /\ loc' = [loc EXCEPT !.asr_segments = segments,
                                  !.asr_json_path = AsrJsonPath(backend),
                                  !.asr_srt_path = AsrSrtPath(backend)]
            /\ pc' = "transcribed"
            /\ UNCHANGED << err, raised, manifest >>

Transcribe ==
    /\ entry = "config"
    /\ pc = "separated"
    /\ Frame
    /\ CASE AsrBranch(config.asr_backend) = "local" -> TranscribeWith("local", "run.py:125")
         [] AsrBranch(config.asr_backend) = "groq"  -> TranscribeWith("groq", "run.py:135")
         [] OTHER -> /\ Raise("Transcribe", FALSE, "ValueError", "run.py:143")
                     /\ UNCHANGED << callLog, args, fs, loc >>

(***************************************************************************)
(* Stage 4 of run_pipeline_with_config: enhancement (lines 145-182)        *)
(***************************************************************************)

\* write_json(enhanced_json_path, {"segments": ...}); write_srt(enhanced_srt_path, ...)
WriteEnhanced(f, segments) ==
    WriteFile(WriteFile(f, EnhancedJson, [segments |-> segments]), EnhancedSrt, segments)

\* Lines 161-172: save the enhanced segments and hand them to the next step
KeepEnhanced(segments) ==
    /\ fs' = WriteEnhanced(fs, segments)
    /\ loc' = [loc EXCEPT !.enhanced_segments = segments,
                          !.enhanced_json_path = EnhancedJson,
                          !.enhanced_srt_path = EnhancedSrt,
                          !.segments_for_next_step = segments,
                          !.srt_for_next_step = EnhancedSrt]
    /\ pc' = "enhanced"
    /\ UNCHANGED << err, raised, manifest >>

\* enhance_with_groq(asr_json["segments"], config): not wrapped in any try
CallEnhancer(site) ==
    /\ callLog' = Append(callLog, "Enhance")
    /\ args' = [args EXCEPT !.enhance_segments = loc.asr_segments]
    /\ \/ /\ Raise("Enhance", TRUE, "BackendError", site)
          /\ UNCHANGED << fs, loc >>
       \/ \E enhanced \in LlmOutputs : KeepEnhanced(enhanced)

Enhance ==
    /\ entry = "config"
    /\ pc = "transcribed"
    /\ Frame
    /\ IF config.enhancer_enabled
       THEN IF config.llm_backend = "groq"
            THEN CallEnhancer("run.py:152")
            ELSE \* lines 154-159: unknown backend, ASR segments pass through
                 /\ KeepEnhanced(loc.asr_segments)
                 /\ UNCHANGED << callLog, args >>
       ELSE \* lines 173-182
            /\ loc' = [loc EXCEPT !.enhanced_segments = loc.asr_segments,
                                  !.segments_for_next_step = loc.asr_segments,
                                  !.srt_for_next_step = loc.asr_srt_path,
                                  !.enhanced_json_path = None,
                                  !.enhanced_srt_path = None]
            /\ pc' = "enhanced"
            /\ UNCHANGED << callLog, args, fs, err, raised, manifest >>

(***************************************************************************)
(* Stage 5 of run_pipeline_with_config: translation (lines 184-250)        *)
(***************************************************************************)

\* Python truthiness of a string (None and "" are false)
Truthy(str) == str # "" /\ str # None

\* The branch of lines 194 / 200 / 206 / 247 that is taken
TranslationBranch(enabled, target_language) ==
    IF enabled /\ ~ Truthy(target_language) THEN "enabled_without_target"
    ELSE IF ~ enabled /\ Truthy(target_language) THEN "target_without_enabled"
    ELSE IF enabled /\ Truthy(target_language) THEN "translate"
    ELSE "disabled"

\* write_json(translated_json_path, {...}); write_srt(translated_srt_path, ...)
WriteTranslated(f, lang, segments) ==
    WriteFile(WriteFile(f, TranslatedJson(lang),
                        [segments |-> segments, target_language |-> lang]),
              TranslatedSrt(lang), segments)

\* Lines 227-246 (and 453-469): name, save and select the translated segments
KeepTranslated(lang, segments, site) ==
    IF "translated_dir" \notin WorkDirsFields
    THEN /\ Raise("Translate", FALSE, "AttributeError", site)
         /\ UNCHANGED << fs, loc >>
    ELSE /\ fs' = WriteTranslated(fs, lang, segments)
         /\ loc' = [loc EXCEPT !.final_segments = segments,
                               !.final_srt_path = TranslatedSrt(lang),
                               !.translated_json_path = TranslatedJson(lang),
                               !.translated_srt_path = TranslatedSrt(lang)]
         /\ pc' = "translated"
         /\ UNCHANGED << err, raised, manifest >>

\* from translator.translate_transcript import translate_with_groq, then the
\* call and what follows it
TranslateWith(llm_backend, lang, input, importSite, callSite, dirSite) ==
    IF "translate_with_groq" \notin TranslatorModuleNames
    THEN /\ Raise("Translate", FALSE, "ImportError", importSite)
         /\ UNCHANGED << callLog, args, fs, loc >>
    ELSE IF llm_backend = "groq"
    THEN /\ callLog' = Append(callLog, "Translate")
         /\ args' = [args EXCEPT !.translate_segments = input]
         /\ \/ /\ Raise("Translate", TRUE, "BackendError", callSite)
               /\ UNCHANGED << fs, loc >>
            \/ \E translated \in LlmOutputs : KeepTranslated(lang, translated, dirSite)
    ELSE /\ KeepTranslated(lang, input, dirSite)
         /\ UNCHANGED << callLog, args >>

\* Lines 185-188 and the branches that skip translation
SkipTranslation ==
    /\ loc' = [loc EXCEPT !.final_segments = loc.segments_for_next_step,
                          !.final_srt_path = loc.srt_for_next_step,
                          !.translated_json_path = None,
                          !.translated_srt_path = None]
    /\ pc' = "translated"
    /\ UNCHANGED << callLog, args, fs, err, raised, manifest >>

Translate ==
    /\ entry = "config"
    /\ pc = "enhanced"
    /\ Frame
    /\ IF TranslationBranch(config.translator_enabled, config.target_language) = "translate"
       THEN TranslateWith(config.llm_backend, config.target_language,
                          loc.segments_for_next_step,
                          "run.py:212", "run.py:215", "run.py:229")
       ELSE SkipTranslation

(***************************************************************************)
(* Stage 6: subtitle rendering and the result manifest                     *)
(* (lines 252-299 and 471-512)                                             *)
(***************************************************************************)

\* The branch of lines 258 / 262 (475 / 478): anything but "soft" burns
RenderBranch(mode) == IF mode = "soft" THEN "soft" ELSE "burn"

FinalVideoPath(mode) == IF RenderBranch(mode) = "soft" THEN SoftVideo ELSE BurnedVideo

\* Lines 269-299 (482-512): the dictionary the run returns
\* Mutant of Manifest: the enhanced artifacts are reported at their default
\* paths whether or not the enhancement step wrote them.
Manifest_GuessedEnhancedPaths(l, final_video, withSeparation, withTranslation, target_language) ==
    [ video_id |-> VideoId, video |-> l.video_path, audio |-> l.audio_path,
      transcription_audio |-> l.transcription_audio_path,
      asr_json |-> l.asr_json_path,
      enhanced_json |-> EnhancedJson, enhanced_srt |-> EnhancedSrt,
      final_video |-> final_video ]
    @@ (IF withSeparation
        THEN ("separation_results" :> l.separation_results) @@
             ("separation_output_dir" :> SeparatedDir)
        ELSE NoManifest)
    @@ (IF withTranslation
        THEN ("translated_json" :> l.translated_json_path) @@
             ("translated_srt" :> l.translated_srt_path) @@
             ("target_language" :> target_language)
        ELSE NoManifest)

Manifest(l, final_video, withSeparation, withTranslation, target_language) ==
    [ video_id |-> VideoId, video |-> l.video_path, audio |-> l.audio_path,
      transcription_audio |-> l.transcription_audio_path,
      asr_json |-> l.asr_json_path,
      enhanced_json |-> l.enhanced_json_path, enhanced_srt |-> l.enhanced_srt_path,
      final_video |-> final_video ]
    @@ (IF withSeparation
        THEN ("separation_results" :> l.separation_results) @@
             ("separation_output_dir" :> SeparatedDir)
        ELSE NoManifest)
    @@ (IF withTranslation
        THEN ("translated_json" :> l.translated_json_path) @@
             ("translated_srt" :> l.translated_srt_path) @@
             ("target_language" :> target_language)
        ELSE NoManifest)

\* Mutant of RenderWith: a failing render is swallowed and the manifest,
\* final_video included, is returned all the same.
RenderWith_ReportsOnFailure(mode, withSeparation, withTranslation, target_language, site) ==
    /\ callLog' = Append(callLog, "RenderSubtitles")
    /\ args' = [args EXCEPT !.render_video = loc.video_path,
                            !.render_srt = loc.final_srt_path,
                            !.render_mode = RenderBranch(mode)]
    /\ \E failed \in BOOLEAN :
         /\ raised' = (IF failed THEN raised \cup { "RenderSubtitles" } ELSE raised)
         /\ fs' = (IF failed THEN fs ELSE WriteFile(fs, FinalVideoPath(mode), "media"))
         /\ loc' = [loc EXCEPT !.final_video = FinalVideoPath(mode)]
         /\ manifest' = Manifest(loc, FinalVideoPath(mode), withSeparation,
                                 withTranslation, target_language)
         /\ pc' = "returned"
         /\ UNCHANGED err

\* The file tempfile.NamedTemporaryFile(suffix='.ass', delete=False) creates
TempAss == "tmp/tmpburn.ass"

\* burn_subtitles with box_opacity None: the temporary file of line 62 is
\* created, the SRT file is read, and int(box_opacity * 255) at
\* ffmpeg_utils.py line 70 raises TypeError, outside the try/finally that
\* removes the temporary file.  final_video was assigned before the call.
BurnWithoutOpacity(site) ==
    /\ callLog' = Append(callLog, "RenderSubtitles")
    /\ args' = [args EXCEPT !.render_video = loc.video_path,
                            !.render_srt = loc.final_srt_path,
                            !.render_mode = "burn"]
    /\ Raise("RenderSubtitles", TRUE, "TypeError", site)
    /\ fs' = WriteFile(fs, TempAss, [alpha |-> << >>, events |-> << >>])
    /\ loc' = [loc EXCEPT !.final_video = BurnedVideo]

\* add_subtitles_soft / burn_subtitles, then the manifest
RenderWith(mode, withSeparation, withTranslation, target_language, site) ==
    /\ callLog' = Append(callLog, "RenderSubtitles")
    /\ args' = [args EXCEPT !.render_video = loc.video_path,
                            !.render_srt = loc.final_srt_path,
                            !.render_mode = RenderBranch(mode)]
    /\ \/ /\ Raise("RenderSubtitles", TRUE, "RuntimeError", site)
          /\ loc' = [loc EXCEPT !.final_video = FinalVideoPath(mode)]
          /\ UNCHANGED fs
       \/ /\ fs' = WriteFile(fs, FinalVideoPath(mode), "media")
          /\ loc' = [loc EXCEPT !.final_video = FinalVideoPath(mode)]
          /\ manifest' = Manifest(loc, FinalVideoPath(mode), withSeparation,
                                  withTranslation, target_language)
          /\ pc' = "returned"
          /\ UNCHANGED << err, raised >>

RenderSubtitles ==
    /\ entry = "config"
    /\ pc = "translated"
    /\ Frame
    /\ IF RenderBranch(config.subtitles_mode) = "burn" /\ ~ config.box_opacity.given
       THEN BurnWithoutOpacity("run.py:264")
       ELSE RenderWith(config.subtitles_mode,
                       config.separation = "enabled" /\ loc.separation_results # {},
                       config.translator_enabled /\ Truthy(config.target_language),
                       config.target_language,
                       IF RenderBranch(config.subtitles_mode) = "soft"
                       THEN "run.py:260" ELSE "run.py:264")

(***************************************************************************)
(* The legacy entry point run_pipeline (lines 302-512)                     *)
(***************************************************************************)

LegacyAcquire == entry = "legacy" /\ AcquireStep("run.py:317")

LegacyExtractAudio == entry = "legacy" /\ ExtractStep

\* Lines 344-389.  Everything from the import on is inside the try.
LegacySeparateAudio ==
    /\ entry = "legacy"
    /\ pc = "extracted"
    /\ Frame
    /\ pc' = "separated"
    /\ UNCHANGED << args, err, manifest >>
    /\ IF ~ config.env_separation
       THEN /\ loc' = [loc EXCEPT !.transcription_audio_path = loc.audio_path]
            /\ UNCHANGED << callLog, fs, raised >>
       ELSE IF \/ "check_audio_separator_availability" \notin SeparatorModuleNames
               \/ "separated_dir" \notin WorkDirsFields
       THEN \* ImportError at line 355 (or AttributeError at line 367): caught at line 385
            /\ loc' = [loc EXCEPT !.transcription_audio_path = loc.audio_path]
            /\ UNCHANGED << callLog, fs, raised >>
       ELSE \/ \* separator not available (line 360)
               /\ loc' = [loc EXCEPT !.transcription_audio_path = loc.audio_path]
               /\ UNCHANGED << callLog, fs, raised >>
            \/ /\ callLog' = Append(callLog, "SeparateAudio")
               /\ \/ /\ raised' = raised \cup { "SeparateAudio" }
                     /\ loc' = [loc EXCEPT !.transcription_audio_path = loc.audio_path]
                     /\ UNCHANGED fs
                  \/ \E results \in SeparationOutputs :
                       /\ UNCHANGED raised
                       /\ fs' = (IF "vocals" \in results
                                 THEN WriteFile(fs, VocalsPath, "audio") ELSE fs)
                       /\ loc' = [loc EXCEPT
                                    !.separation_results = results,
                                    !.transcription_audio_path =
                                        TranscriptionAudio(TRUE, results, loc.audio_path)]

\* The branch of lines 392 / 403: everything but "local" goes to Groq
LegacyAsrBranch(backend) == IF backend = "local" THEN "local" ELSE "groq"

\* Number of positional arguments line 395 passes to transcribe_with_whisper
LegacyWhisperArgs == 3

\* Lines 391-419
LegacyTranscribe ==
    /\ entry = "legacy"
    /\ pc = "separated"
    /\ Frame
    /\ IF LegacyAsrBranch(config.asr_backend) = "local"
       THEN IF LegacyWhisperArgs # WhisperArity
            THEN \* TypeError: the call does not match the function's signature
                 /\ Raise("Transcribe", FALSE, "TypeError", "run.py:395")
                 /\ UNCHANGED << callLog, args, fs, loc >>
            ELSE TranscribeWith("local", "run.py:395")
       ELSE TranscribeWith("groq", "run.py:414")

\* Lines 421-434: there is no enabled flag, the enhanced files are always written
LegacyEnhance ==
    /\ entry = "legacy"
    /\ pc = "transcribed"
    /\ Frame
    /\ IF config.llm_backend = "groq"
       THEN CallEnhancer("run.py:428")
       ELSE /\ KeepEnhanced(loc.asr_segments)
            /\ UNCHANGED << callLog, args >>

\* Lines 436-469
LegacyTranslate ==
    /\ entry = "legacy"
    /\ pc = "enhanced"
    /\ Frame
    /\ IF Truthy(config.target_language)
       THEN TranslateWith(config.llm_backend, config.target_language,
                          loc.enhanced_segments,
                          "run.py:444", "run.py:447", "run.py:455")
       ELSE SkipTranslation

\* Lines 471-512
LegacyRenderSubtitles ==
    /\ entry = "legacy"
    /\ pc = "translated"
    /\ Frame
    /\ IF RenderBranch(config.subtitles_mode) = "burn" /\ ~ config.box_opacity.given
       THEN BurnWithoutOpacity("run.py:480")
       ELSE RenderWith(config.subtitles_mode,
                       config.env_separation /\ loc.separation_results # {},
                       Truthy(config.target_language),
                       config.target_language,
                       IF RenderBranch(config.subtitles_mode) = "soft"
                       THEN "run.py:477" ELSE "run.py:480")

(***************************************************************************)
(* Command-line callers                                                    *)
(***************************************************************************)

\* src/main.py lines 60-66: print(result), or print the error and sys.exit(1)
MainExit ==
    /\ caller = "main"
    /\ pc \in { "returned", "aborted" }
    /\ pc' = "exited"
    /\ IF pc = "returned"
       THEN exitCode' = 0 /\ printed' = "result"
       ELSE exitCode' = 1 /\ printed' = "error"
    /\ UNCHANGED << entry, caller, config, err, raised, callLog, args, fs, loc, manifest,
                    run, fetches, prior, call >>

\* src/pipeline/run.py lines 581-601: the result is logged; an exception is
\* not caught, so the interpreter prints the traceback and exits with status 1
RunMainExit ==
    /\ caller = "run_main"
    /\ pc \in { "returned", "aborted" }
    /\ pc' = "exited"
    /\ IF pc = "returned"
       THEN exitCode' = 0 /\ printed' = "result"
       ELSE exitCode' = 1 /\ printed' = "error"
    /\ UNCHANGED << entry, caller, config, err, raised, callLog, args, fs, loc, manifest,
                    run, fetches, prior, call >>

Next ==
    \/ Acquire \/ ExtractAudio \/ SeparateAudio \/ Transcribe
    \/ Enhance \/ Translate \/ RenderSubtitles
    \/ LegacyAcquire \/ LegacyExtractAudio \/ LegacySeparateAudio \/ LegacyTranscribe
    \/ LegacyEnhance \/ LegacyTranslate \/ LegacyRenderSubtitles
    \/ MainExit \/ RunMainExit

Spec == Init /\ [][Next]_vars

(***************************************************************************)
(* Several runs over the same Work Item                                    *)
(***************************************************************************)

\* The same entry point is called again for the same URL, with the same
\* settings, after the previous call returned or raised (or the process of a
\* command-line caller exited).  Nothing of the previous call survives but
\* the file system.
Rerun ==
    /\ pc \in { "returned", "aborted", "exited" }
    /\ run < MaxRuns
    /\ run' = run + 1
    /\ prior' = [paths |-> DOMAIN fs, fetches |-> fetches]
    /\ pc' = "start"
    /\ err' = NoErr
    /\ raised' = {}
    /\ callLog' = << >>
    /\ args' = InitArgs
    /\ loc' = InitLoc
    /\ manifest' = NoManifest
    /\ exitCode' = -1
    /\ printed' = "none"
    /\ UNCHANGED << entry, caller, config, fs, fetches, call >>

NextRerun == Next \/ Rerun

SpecRerun == Init /\ [][NextRerun]_vars

(***************************************************************************)
(* Utility functions called on their own                                   *)
(***************************************************************************)

IdleConfig ==
    [ asr_backend |-> "local", llm_backend |-> "groq", enhancer_enabled |-> TRUE,
      translator_enabled |-> FALSE, target_language |-> "", subtitles_mode |-> "soft",
      box_opacity |-> OpacityNumber,
      separation |-> "absent", env_separation |-> FALSE ]

\* No pipeline run is going on.
IdlePipeline ==
    /\ entry = "config"
    /\ caller = "api"
    /\ config = IdleConfig
    /\ pc = "idle"
    /\ err = NoErr
    /\ raised = {}
    /\ callLog = << >>
    /\ args = InitArgs
    /\ loc = InitLoc
    /\ manifest = NoManifest
    /\ exitCode = -1
    /\ printed = "none"
    /\ run = 1
    /\ fetches = 0

UtilFrame ==
    UNCHANGED << entry, caller, config, pc, err, raised, callLog, args, loc, manifest,
                 exitCode, printed, run, fetches, prior >>

(***************************************************************************)
(* Text: a Python str is the sequence of its characters                    *)
(***************************************************************************)

Digits == << "0", "1", "2", "3", "4", "5", "6", "7", "8", "9" >>

DigitChars == { Digits[i] : i \in 1..Len(Digits) }

DigitChar(d) == Digits[d + 1]

DigitValue(c) == (CHOOSE i \in 1..Len(Digits) : Digits[i] = c) - 1

\* str(n) for n >= 0
RECURSIVE DecDigits(_)
DecDigits(n) ==
    IF n < 10 THEN << DigitChar(n) >>
    ELSE DecDigits(n \div 10) \o << DigitChar(n % 10) >>

\* The format specification {n:0wd} for n >= 0: at least w digits
RECURSIVE ZeroPad(_, _)
ZeroPad(str, w) == IF Len(str) >= w THEN str ELSE ZeroPad(<< "0" >> \o str, w)

FormatInt(n, w) == ZeroPad(DecDigits(n), w)

\* Index of the first occurrence of c in a sequence, 0 when there is none
Find(str, c) ==
    LET at == { i \in 1..Len(str) : str[i] = c }
    IN IF at = {} THEN 0 ELSE CHOOSE i \in at : \A j \in at : i <= j

\* str.split(c, maxsplit): the list of parts
RECURSIVE Split(_, _, _)
Split(str, c, maxsplit) ==
    LET i == Find(str, c)
    IN IF maxsplit = 0 \/ i = 0 THEN << str >>
       ELSE << SubSeq(str, 1, i - 1) >>
            \o Split(SubSeq(str, i + 1, Len(str)), c, maxsplit - 1)

\* str.split(c) without maxsplit
SplitAll(str, c) == Split(str, c, Len(str))

\* str.strip() on the whitespace of the model: the blank
RECURSIVE LStrip(_)
LStrip(str) ==
    IF str # << >> /\ str[1] = " " THEN LStrip(SubSeq(str, 2, Len(str))) ELSE str

RECURSIVE RStrip(_)
RStrip(str) ==
    IF str # << >> /\ str[Len(str)] = " " THEN RStrip(SubSeq(str, 1, Len(str) - 1)) ELSE str

Strip(str) == LStrip(RStrip(str))

\* Whether int(str) returns: on the characters of the model (digits, letters,
\* separators, blanks around the digits) a non-empty run of digits
IsInt(str) ==
    LET t == Strip(str)
    IN t # << >> /\ \A i \in 1..Len(t) : t[i] \in DigitChars

\* int(str) when it returns
RECURSIVE DecValue(_)
DecValue(t) ==
    IF t = << >> THEN 0
    ELSE 10 * DecValue(SubSeq(t, 1, Len(t) - 1)) + DigitValue(t[Len(t)])

IntOf(str) == DecValue(Strip(str))

(***************************************************************************)
(* Python float: IEEE 754 binary64.  A non-negative value is held exactly  *)
(* as its integer part and the bits of its fraction (no trailing zero);    *)
(* every operation rounds its exact result to 53 significant bits, ties to *)
(* even.  The values of the model stay below 2^31.                         *)
(***************************************************************************)

\* Significant bits of a binary64
MantissaBits == 53

RECURSIVE BitLen(_)
BitLen(n) == IF n = 0 THEN 0 ELSE 1 + BitLen(n \div 2)

\* Index of the last occurrence of c in a sequence, 0 when there is none
FindLast(str, c) ==
    LET at == { i \in 1..Len(str) : str[i] = c }
    IN IF at = {} THEN 0 ELSE CHOOSE i \in at : \A j \in at : i >= j

TrimZeros(bits) == SubSeq(bits, 1, FindLast(bits, 1))

\* Add one unit in the last place of the fraction bits: [carry, bits]
IncBits(bits) ==
    LET j == FindLast(bits, 0)
    IN [ carry |-> IF j = 0 THEN 1 ELSE 0,
         bits  |-> [i \in 1..Len(bits) |-> IF i < j THEN bits[i]
                                           ELSE IF i = j THEN 1 ELSE 0] ]

Float(neg, int, frac) == [neg |-> neg, int |-> int, frac |-> TrimZeros(frac)]

FloatZero == Float(FALSE, 0, << >>)

\* The exact value int + 0.frac rounded to a binary64 (round half to even)
Round53(int, frac) ==
    LET z == Find(frac, 1)
        keep == IF int > 0 THEN MantissaBits - BitLen(int)
                ELSE IF z = 0 THEN 0 ELSE z - 1 + MantissaBits
    IN IF Len(frac) <= keep THEN Float(FALSE, int, frac)
       ELSE LET kept == SubSeq(frac, 1, keep)
                half == frac[keep + 1] = 1
                sticky == \E i \in (keep + 2)..Len(frac) : frac[i] = 1
                odd == IF keep = 0 THEN int % 2 = 1 ELSE kept[keep] = 1
            IN IF half /\ (sticky \/ odd)
               THEN LET r == IncBits(kept) IN Float(FALSE, int + r.carry, r.bits)
               ELSE Float(FALSE, int, kept)

\* 2^n modulo d
RECURSIVE Pow2Mod(_, _)
Pow2Mod(n, d) ==
    IF n = 0 THEN 1 % d
    ELSE LET h == Pow2Mod(n \div 2, d)
         IN IF n % 2 = 0 THEN (h * h) % d ELSE (2 * ((h * h) % d)) % d

\* What is left of r / d after the first n bits of its binary expansion
DivRest(r, d, n) == (r * Pow2Mod(n, d)) % d

\* The first n bits of the binary expansion of r / d, 0 <= r < d
DivBits(r, d, n) == [i \in 1..n |-> (2 * DivRest(r, d, i - 1)) \div d]

\* float(a) / float(d) for integers a >= 0, d > 0: the correctly rounded quotient
FloatDiv(a, d) ==
    LET n == 2 * MantissaBits
        r == a % d
    IN Round53(a \div d,
               DivBits(r, d, n) \o (IF DivRest(r, d, n) # 0 THEN << 1 >> ELSE << >>))

RECURSIVE Pow2(_)
Pow2(n) == IF n = 0 THEN 1 ELSE 2 * Pow2(n - 1)

\* Bits of a fraction are multiplied sixteen at a time.
LimbBits == 16

\* The integer a limb of bits stands for, and back
RECURSIVE LimbValue(_)
LimbValue(bits) ==
    IF bits = << >> THEN 0
    ELSE 2 * LimbValue(SubSeq(bits, 1, Len(bits) - 1)) + bits[Len(bits)]

LimbOf(v) == [i \in 1..LimbBits |-> (v \div Pow2(LimbBits - i)) % 2]

\* bits (a fraction, a whole number of limbs) times m < 2^15, exactly:
\* [carry (the integer part), bits]
RECURSIVE MulLimbs(_, _)
MulLimbs(bits, m) ==
    IF bits = << >> THEN [carry |-> 0, bits |-> << >>]
    ELSE LET r == MulLimbs(SubSeq(bits, LimbBits + 1, Len(bits)), m)
             t == LimbValue(SubSeq(bits, 1, LimbBits)) * m + r.carry
         IN [carry |-> t \div Pow2(LimbBits), bits |-> LimbOf(t % Pow2(LimbBits)) \o r.bits]

MulBits(bits, m) ==
    LET pad == (LimbBits - (Len(bits) % LimbBits)) % LimbBits
    IN MulLimbs(bits \o [i \in 1..pad |-> 0], m)

\* x * m for a float x >= 0 and an integer m >= 0
FloatMulInt(x, m) ==
    LET r == MulBits(x.frac, m) IN Round53(x.int * m + r.carry, r.bits)

\* n + x for an integer n >= 0 and a float x >= 0
IntPlusFloat(n, x) == Round53(n + x.int, x.frac)

\* round(x) of a float x >= 0: the nearest integer, a tie goes to the even one
RoundToInt(x) ==
    IF x.frac = << >> THEN x.int
    ELSE IF x.frac[1] = 0 THEN x.int
    ELSE IF Len(x.frac) = 1 THEN (IF x.int % 2 = 0 THEN x.int ELSE x.int + 1)
    ELSE x.int + 1

(***************************************************************************)
(* src/utils/timecode.py                                                   *)
(***************************************************************************)

\* Mutant of SrtFields: the hours wrap around at one hundred (two digits).
SrtFields_HoursWrap(total_milliseconds) ==
    [ hours   |-> (total_milliseconds \div 3600000) % 100,
      minutes |-> (total_milliseconds % 3600000) \div 60000,
      secs    |-> ((total_milliseconds % 3600000) % 60000) \div 1000,
      millis  |-> ((total_milliseconds % 3600000) % 60000) % 1000 ]

\* Lines 8-13: hours, minutes, seconds and milliseconds of a total
SrtFields(total_milliseconds) ==
    [ hours   |-> total_milliseconds \div 3600000,
      minutes |-> (total_milliseconds % 3600000) \div 60000,
      secs    |-> ((total_milliseconds % 3600000) % 60000) \div 1000,
      millis  |-> ((total_milliseconds % 3600000) % 60000) % 1000 ]

\* Line 14: f"{hours:02d}:{minutes:02d}:{secs:02d},{millis:03d}"
SrtTimestamp(f) ==
    FormatInt(f.hours, 2) \o << ":" >> \o FormatInt(f.minutes, 2) \o << ":" >>
    \o FormatInt(f.secs, 2) \o << "," >> \o FormatInt(f.millis, 3)

\* seconds_to_srt_time(seconds)
seconds_to_srt_time(seconds) ==
    LET clamped == IF seconds.neg THEN FloatZero ELSE seconds
        total_milliseconds == RoundToInt(FloatMulInt(clamped, 1000))
    IN SrtTimestamp(SrtFields(total_milliseconds))

\* What a call returns, or the exception it raises
Returns(value) == [error |-> "none", value |-> value]

Raises(kind) == [error |-> kind, value |-> None]

\* Mutant of IsIntField: an empty field counts as zero.
IsIntField_EmptyIsZero(str) == Strip(str) = << >> \/ IsInt(str)

\* Whether int() accepts the field of a timestamp
IsIntField(str) == IsInt(str)

\* Lines 19-20 and 30-31: hh, mm, rest = s.split(":", 2); ss, ms = rest.split(",")
\* The fields, or nothing when an unpacking or an int() fails
TimestampFields(time_str) ==
    LET parts == Split(time_str, ":", 2)
    IN IF Len(parts) # 3 THEN << >>
       ELSE LET rest == SplitAll(parts[3], ",")
            IN IF Len(rest) # 2 THEN << >>
               ELSE LET fields == << parts[1], parts[2], rest[1], rest[2] >>
                    IN IF \A i \in 1..4 : IsIntField(fields[i])
                       THEN [i \in 1..4 |-> IntOf(fields[i])]
                       ELSE << >>

\* srt_time_to_seconds(time_str)
srt_time_to_seconds(time_str) ==
    LET f == TimestampFields(time_str)
    IN IF f = << >> THEN Raises("ValueError")
       ELSE Returns(IntPlusFloat(f[1] * 3600 + f[2] * 60 + f[3], FloatDiv(f[4], 1000)))

\* Mutant of Centiseconds: the milliseconds are rounded to the nearest centisecond.
Centiseconds_Rounded(ms) == (ms + 5) \div 10

\* Line 37: int(ms) // 10
Centiseconds(ms) == ms \div 10

\* srt_time_to_ass_time(srt_time)
srt_time_to_ass_time(srt_time) ==
    LET f == TimestampFields(Strip(srt_time))
    IN IF f = << >> THEN Raises("ValueError")
       ELSE Returns(FormatInt(f[1], 1) \o << ":" >> \o FormatInt(f[2], 2) \o << ":" >>
                    \o FormatInt(f[3], 2) \o << "." >> \o FormatInt(Centiseconds(f[4]), 2))

(***************************************************************************)
(* The timecode functions on their inputs (SpecTimecode)                   *)
(***************************************************************************)

\* Every whole number of milliseconds up to this one is an input.
MaxMillis == 1200

\* Longest text handed to srt_time_to_seconds.
MaxChars == 7

\* Durations around the hour, the day and the hundred hours, in milliseconds
HourSamples == { 59999, 60000, 3599999, 3600000, 3661500, 86399999, 86400000,
                 359999999, 360000000 }

MillisInputs == 0..MaxMillis \cup HourSamples

\* Seconds values that are not whole milliseconds, in tenths of a millisecond
TenthsInputs == { 4, 5, 6, 15, 25, 10005, 20015, 36615004 }

\* The float a [neg, num, den] input stands for: -(num / den) or num / den
InputFloat(in) == [ FloatDiv(in.num, in.den) EXCEPT !.neg = in.neg ]

\* Characters of the texts handed to srt_time_to_seconds
TimeChars == { "1", "x", ":", "," }

TimeTexts == UNION { [1..n -> TimeChars] : n \in 0..MaxChars }

TimecodeInit ==
    /\ IdlePipeline
    /\ fs = EmptyFs
    /\ prior = [paths |-> {}, fetches |-> 0]
    /\ \/ \E k \in MillisInputs, neg \in BOOLEAN :
            call = [fn |-> "seconds_to_srt_time", done |-> FALSE, output |-> None,
                    input |-> [neg |-> neg /\ k > 0, num |-> k, den |-> 1000]]
       \/ \E u \in TenthsInputs :
            call = [fn |-> "seconds_to_srt_time", done |-> FALSE, output |-> None,
                    input |-> [neg |-> FALSE, num |-> u, den |-> 10000]]
       \/ \E k \in MillisInputs :
            call = [fn |-> "round_trip", done |-> FALSE, output |-> None, input |-> k]
       \/ \E text \in TimeTexts :
            call = [fn |-> "srt_time_to_seconds", done |-> FALSE, output |-> None,
                    input |-> text]
       \/ \E k \in MillisInputs, blanks \in BOOLEAN :
            call = [fn |-> "srt_time_to_ass_time", done |-> FALSE, output |-> None,
                    input |-> [millis |-> k,
                               text |-> IF blanks
                                        THEN << " " >> \o SrtTimestamp(SrtFields(k)) \o << " " >>
                                        ELSE SrtTimestamp(SrtFields(k))]]

CallSecondsToSrtTime ==
    /\ call.fn = "seconds_to_srt_time"
    /\ ~ call.done
    /\ call' = [call EXCEPT !.output = seconds_to_srt_time(InputFloat(call.input)),
                            !.done = TRUE]
    /\ UNCHANGED fs
    /\ UtilFrame

\* srt_time_to_seconds(seconds_to_srt_time(s)) for s = k / 1000
CallRoundTrip ==
    /\ call.fn = "round_trip"
    /\ ~ call.done
    /\ LET text == seconds_to_srt_time(FloatDiv(call.input, 1000))
       IN call' = [call EXCEPT !.output = [text |-> text, back |-> srt_time_to_seconds(text)],
                               !.done = TRUE]
    /\ UNCHANGED fs
    /\ UtilFrame

CallSrtTimeToSeconds ==
    /\ call.fn = "srt_time_to_seconds"
    /\ ~ call.done
    /\ call' = [call EXCEPT !.output = srt_time_to_seconds(call.input), !.done = TRUE]
    /\ UNCHANGED fs
    /\ UtilFrame

CallSrtTimeToAssTime ==
    /\ call.fn = "srt_time_to_ass_time"
    /\ ~ call.done
    /\ call' = [call EXCEPT !.output = srt_time_to_ass_time(call.input.text), !.done = TRUE]
    /\ UNCHANGED fs
    /\ UtilFrame

TimecodeNext ==
    \/ CallSecondsToSrtTime \/ CallRoundTrip \/ CallSrtTimeToSeconds \/ CallSrtTimeToAssTime

SpecTimecode == TimecodeInit /\ [][TimecodeNext]_vars

(***************************************************************************)
(* check_video_exists and ensure_workdirs on a Work Item in any state      *)
(* (SpecPaths)                                                             *)
(***************************************************************************)

\* Most calls of ensure_workdirs in a row.
MaxCalls == 3

\* What may be found at each path of the Work Item
PathStates == [ { WorkDirList[i] : i \in 1..Len(WorkDirList) } -> { "absent", "dir", "file" } ]

\* Nothing exists under a path that is not a directory.
WellFormedPaths(st) ==
    st[RootDir] # "dir" => \A p \in DOMAIN st : p # RootDir => st[p] = "absent"

FsOfPaths(st, hasVideo) ==
    [ p \in { q \in DOMAIN st : st[q] # "absent" } \cup (IF hasVideo THEN { WorkVideo } ELSE {})
        |-> IF p = WorkVideo THEN "media" ELSE st[p] ]

\* The Work Items the functions are called on
PathsFileSystems ==
    { FsOfPaths(st, FALSE) : st \in { t \in PathStates : WellFormedPaths(t) } }
    \cup { FsOfPaths(st, TRUE) :
              st \in { t \in PathStates : WellFormedPaths(t) /\ t[VideoDir] = "dir" } }

PathsInit ==
    /\ IdlePipeline
    /\ fs \in PathsFileSystems
    /\ prior = [paths |-> DOMAIN fs, fetches |-> 0]
    /\ \E fn \in { "check_video_exists", "ensure_workdirs" } :
           call = [fn |-> fn, input |-> fs, output |-> << >>, done |-> FALSE]

CallCheckVideoExists ==
    /\ call.fn = "check_video_exists"
    /\ ~ call.done
    /\ call' = [call EXCEPT !.output = Append(@, [ret |-> check_video_exists(fs), fs |-> fs]),
                            !.done = TRUE]
    /\ UNCHANGED fs
    /\ UtilFrame

CallEnsureWorkdirs ==
    /\ call.fn = "ensure_workdirs"
    /\ Len(call.output) < MaxCalls
    /\ LET r == ensure_workdirs_result(fs)
       IN /\ fs' = r.fs
          /\ call' = [call EXCEPT !.output = Append(@, [ret |-> r.ret, error |-> r.error,
                                                        before |-> fs, fs |-> r.fs]),
                                  !.done = TRUE]
    /\ UtilFrame

PathsNext == CallCheckVideoExists \/ CallEnsureWorkdirs

SpecPaths == PathsInit /\ [][PathsNext]_vars

(***************************************************************************)
(* Vocabulary of the properties                                            *)
(***************************************************************************)

Called == { callLog[i] : i \in 1..Len(callLog) }

Calls(stage) == Cardinality({ i \in 1..Len(callLog) : callLog[i] = stage })

Aborted == err.kind # "none"

Returned == manifest # NoManifest

Finished == pc \in { "returned", "aborted", "exited" }

\* Position of a stage in the pipeline
StageRank(stage) ==
    CASE stage = "Acquire"         -> 1
      [] stage = "ExtractAudio"    -> 2
      [] stage = "SeparateAudio"   -> 3
      [] stage = "Transcribe"      -> 4
      [] stage = "Enhance"         -> 5
      [] stage = "Translate"       -> 6
      [] stage = "RenderSubtitles" -> 7

TranslationActive ==
    IF entry = "config"
    THEN TranslationBranch(config.translator_enabled, config.target_language) = "translate"
    ELSE Truthy(config.target_language)

EnhancementActive == entry = "legacy" \/ config.enhancer_enabled

SeparationEnabled ==
    IF entry = "config" THEN config.separation = "enabled" ELSE config.env_separation

\* The SRT of the last text stage the configuration asks for
ExpectedSrt ==
    IF TranslationActive THEN TranslatedSrt(config.target_language)
    ELSE IF EnhancementActive THEN EnhancedSrt
    ELSE AsrSrtPath(config.asr_backend)

(***************************************************************************)
(* C1..C10: the orchestrator                                               *)
(***************************************************************************)

\* C1: a run of run_pipeline_with_config on a valid Config, in which no
\* adapter raises, ends normally and returns a manifest (it does not abort).
C1_ValidConfigRunReturnsManifest ==
    (entry = "config" /\ IsLoadedConfig(config) /\ Finished /\ raised = {})
        => (~ Aborted /\ Returned)

\* C2: when no adapter raises, RenderSubtitles is called exactly once and
\* with the SRT of the last stage that the configuration makes produce one:
\* translated, else enhanced, else ASR.
C2_RenderGetsLastCompletedSrt ==
    (entry = "config" /\ Finished /\ raised = {}
       /\ AsrBranch(config.asr_backend) # "unknown")
        => /\ Calls("RenderSubtitles") = 1
           /\ args.render_srt = ExpectedSrt

\* C3: once the separation step is over, the run has not been aborted in it,
\* and the audio handed to Transcribe and recorded as transcription_audio is
\* the vocals stem exactly when separation was enabled, returned normally and
\* produced a vocals stem; otherwise it is the originally extracted audio.
C3_TranscriptionAudioSelection ==
    ("ExtractAudio" \in Called /\ "ExtractAudio" \notin raised /\ pc # "extracted")
        => /\ err.stage # "SeparateAudio"
           /\ loc.transcription_audio_path =
                  (IF /\ SeparationEnabled
                      /\ "SeparateAudio" \in Called
                      /\ "SeparateAudio" \notin raised
                      /\ "vocals" \in loc.separation_results
                   THEN VocalsPath ELSE AudioPath)
           /\ "Transcribe" \in Called =>
                  args.transcribe_audio = loc.transcription_audio_path
           /\ Returned => manifest["transcription_audio"] = loc.transcription_audio_path

\* C4: translation runs only if translator.enabled is true and the target
\* language is non-empty; with only one of the two, the run raises nothing,
\* writes no translated artifact and renders the prior stage's SRT.
C4_HalfConfiguredTranslationIsSkipped ==
    /\ (entry = "config" /\ "Translate" \in Called) =>
           (config.translator_enabled /\ Truthy(config.target_language))
    /\ (entry = "config" /\ Finished /\ raised = {}
          /\ AsrBranch(config.asr_backend) # "unknown"
          /\ TranslationBranch(config.translator_enabled, config.target_language)
                 \in { "enabled_without_target", "target_without_enabled" })
        => /\ ~ Aborted
           /\ "Translate" \notin Called
           /\ TranslatedPaths \cap DOMAIN fs = {}
           /\ Calls("RenderSubtitles") = 1
           /\ args.render_srt = loc.srt_for_next_step
           /\ loc.final_segments = loc.segments_for_next_step

\* C5: a failure raised by the Enhancement or the Translation adapter is
\* caught by the orchestrator, which is therefore not aborted by it.
C5_EnhanceFailureIsCaught ==
    \A stage \in { "Enhance", "Translate" } :
        stage \in raised => ~ (err.byAdapter /\ err.stage = stage)

\* C6: a failure raised by Acquire, ExtractAudio or Transcribe aborts the
\* run: that error reaches the caller, no later stage is executed and no
\* manifest is returned.
C6_FatalStageAborts ==
    \A stage \in { "Acquire", "ExtractAudio", "Transcribe" } :
        stage \in raised =>
            /\ pc \in { "aborted", "exited" }
            /\ err.byAdapter /\ err.stage = stage
            /\ callLog[Len(callLog)] = stage
            /\ ~ Returned

C6_TranscribeRaised ==
    /\ "Transcribe" \in raised
    /\ pc = "aborted"
    /\ callLog = << "Acquire", "ExtractAudio", "Transcribe" >>

\* C7: when RenderSubtitles fails no manifest is returned, and a command-line
\* invocation prints the error and exits with a non-zero status; a manifest,
\* when there is one, names a final video that was produced.
C7_RenderFailureReportsNoVideo ==
    /\ "RenderSubtitles" \in raised =>
           /\ ~ Returned
           /\ pc \in { "aborted", "exited" }
           /\ pc = "exited" => (exitCode # 0 /\ printed = "error")
    /\ Returned => manifest["final_video"] \in DOMAIN fs

C7_RenderRaisedUnderCli ==
    /\ "RenderSubtitles" \in raised
    /\ pc = "exited"
    /\ exitCode = 1
    /\ SubtitledPaths \cap DOMAIN fs = {}

\* C8: with an ASR backend that is neither "local" nor "groq" the run fails
\* before any transcription: Transcribe is not called, no transcript is
\* written, no later stage runs and no manifest is returned.
C8_UnknownAsrBackendIsFatal ==
    AsrBranch(config.asr_backend) = "unknown" =>
        /\ "Transcribe" \notin Called
        /\ TranscriptPaths \cap DOMAIN fs = {}
        /\ Called \cap { "Enhance", "Translate", "RenderSubtitles" } = {}
        /\ ~ Returned

\* C9: the Enhancement adapter is called only when the enhancer is enabled;
\* when it is enabled with an LLM backend other than "groq", the run does not
\* fail on the way through enhancement, the adapter is not called and the ASR
\* segments are what the next stage receives.
C9_UnknownLlmBackendPassesThrough ==
    /\ (entry = "config" /\ "Enhance" \in Called) => config.enhancer_enabled
    /\ (entry = "config" /\ config.enhancer_enabled /\ config.llm_backend # "groq"
          /\ AsrBranch(config.asr_backend) # "unknown"
          /\ Finished /\ raised = {})
        => /\ err.stage \notin { "SeparateAudio", "Transcribe", "Enhance" }
           /\ "Enhance" \notin Called
           /\ loc.segments_for_next_step = loc.asr_segments

\* C10: the stages of a run are called in pipeline order, each at most once,
\* and a stage starts only when the artifacts of the stages before it exist:
\* the ASR files before Enhance, and the ASR, enhanced and translated files
\* (those the configuration asks for) before RenderSubtitles.
C10_StagesInOrderOnArtifacts ==
    /\ \A i, j \in 1..Len(callLog) :
           i < j => StageRank(callLog[i]) < StageRank(callLog[j])
    /\ "Transcribe" \in Called => { WorkVideo, AudioPath } \subseteq DOMAIN fs
    /\ Called \cap { "Enhance", "Translate", "RenderSubtitles" } # {} =>
           /\ loc.asr_json_path \in TranscriptPaths
           /\ { loc.asr_json_path, loc.asr_srt_path } \subseteq DOMAIN fs
    /\ "RenderSubtitles" \in Called =>
           /\ EnhancementActive => EnhancedPaths \subseteq DOMAIN fs
           /\ TranslationActive =>
                  { TranslatedJson(config.target_language),
                    TranslatedSrt(config.target_language) } \subseteq DOMAIN fs
           /\ args.render_srt \in DOMAIN fs
           /\ args.render_video \in DOMAIN fs

C10_FullRunReturned ==
    /\ pc = "returned"
    /\ callLog = << "Acquire", "ExtractAudio", "Transcribe", "Enhance", "RenderSubtitles" >>
    /\ Returned

(***************************************************************************)
(* C11..C12: runs repeated over the same Work Item (SpecRerun)             *)
(***************************************************************************)

\* Whether the output of a stage was already in the Work Item when the
\* current run started.
StageOutputExisted(stage) ==
    CASE stage = "ExtractAudio"    -> AudioPath \in prior.paths
      [] stage = "Transcribe"      -> TranscriptPaths \cap prior.paths # {}
      [] stage = "Enhance"         -> EnhancedPaths \subseteq prior.paths
      [] stage = "Translate"       -> TranslatedPaths \subseteq prior.paths
      [] stage = "RenderSubtitles" -> SubtitledPaths \cap prior.paths # {}

\* A run before the current one went through to the subtitled video.
PriorRunCompleted == run > 1 /\ SubtitledPaths \cap prior.paths # {}

\* C11: in a run made after a completed run for the same video, the adapter
\* of a stage whose output was already in the Work Item is not invoked.
C11_CompletedStagesAreReused ==
    PriorRunCompleted =>
        \A stage \in { "ExtractAudio", "Transcribe", "Enhance", "Translate",
                       "RenderSubtitles" } :
            StageOutputExisted(stage) => stage \notin Called

\* C12: the media is downloaded at most once over all runs; a run that finds
\* outputs/X/video/X.mp4 downloads nothing, and its download step returns
\* that very file, which is left in place.
C12_MediaFetchedAtMostOnce ==
    /\ fetches <= 1
    /\ WorkVideo \in prior.paths => fetches = prior.fetches
    /\ (WorkVideo \in prior.paths /\ "Acquire" \in Called /\ "Acquire" \notin raised) =>
           /\ loc.dl_video_path = WorkVideo
           /\ loc.video_path = WorkVideo
           /\ WorkVideo \in DOMAIN fs
           /\ TmpVideo \notin DOMAIN fs

C12_SecondRunFoundMedia ==
    /\ run = 2
    /\ prior.fetches = 1
    /\ WorkVideo \in prior.paths
    /\ pc = "acquired"
    /\ loc.dl_video_path = WorkVideo

(***************************************************************************)
(* C13, C19, C20: the Work Item probe and directory manager (SpecPaths)    *)
(***************************************************************************)

\* C13: check_video_exists returns TRUE exactly when outputs/X/video/X.mp4
\* exists, FALSE when the Work Item root or its video/ directory is missing,
\* and leaves the file system as it found it.
C13_ProbeTrueIffMediaExists ==
    (call.fn = "check_video_exists" /\ call.done) =>
        LET o == call.output[1]
        IN /\ o.ret = (WorkVideo \in DOMAIN call.input)
           /\ (RootDir \notin DOMAIN call.input \/ VideoDir \notin DOMAIN call.input)
                  => o.ret = FALSE
           /\ o.fs = call.input
           /\ fs = call.input

C13_ProbeFoundMedia ==
    /\ call.fn = "check_video_exists"
    /\ call.done
    /\ call.output[1].ret = TRUE
    /\ WorkVideo \in DOMAIN fs

\* Attributes of WorkDirs the orchestrator reads (run.py lines 46-257)
OrchestratorWorkDirFields ==
    { "root", "video_dir", "audio_dir", "transcripts_dir", "enhanced_dir",
      "subtitled_dir", "separated_dir", "translated_dir" }

\* C19: ensure_workdirs raises only when one of its paths exists as a
\* non-directory; a call that returns removes and alters nothing that was
\* there, and every later call returns too, with the same WorkDirs, and
\* leaves the file system exactly as the earlier call left it.
C19_EnsureWorkdirsIdempotent ==
    call.fn = "ensure_workdirs" =>
        \A i \in 1..Len(call.output) :
            LET o == call.output[i]
            IN /\ o.error # "none" =>
                      \E k \in 1..Len(WorkDirList) :
                          /\ WorkDirList[k] \in DOMAIN o.before
                          /\ o.before[WorkDirList[k]] # "dir"
               /\ o.error = "none" =>
                      /\ o.ret = WorkDirs
                      /\ \A q \in DOMAIN o.before : q \in DOMAIN o.fs /\ o.fs[q] = o.before[q]
                      /\ \A j \in (i + 1)..Len(call.output) :
                             /\ call.output[j].error = "none"
                             /\ call.output[j].ret = o.ret
                             /\ call.output[j].fs = o.fs

C19_CalledAgainOnCreatedTree ==
    /\ call.fn = "ensure_workdirs"
    /\ Len(call.output) >= 2
    /\ call.output[1].error = "none"
    /\ call.output[1].before # call.output[1].fs
    /\ call.output[2].error = "none"

\* C20: after ensure_workdirs returns, the root and the subdirectories
\* video/, audio/, transcripts/, enhanced/, translated/ and subtitled/ exist,
\* and the WorkDirs it returns has every attribute the orchestrator reads,
\* translated_dir and separated_dir included.
C20_AllFixedDirectoriesExist ==
    (call.fn = "ensure_workdirs" /\ Len(call.output) >= 1 /\ call.output[1].error = "none")
        => /\ \A q \in { RootDir, VideoDir, AudioDir, TranscriptsDir, EnhancedDir,
                         TranslatedDir, SubtitledDir } :
                  q \in DOMAIN fs /\ fs[q] = "dir"
           /\ OrchestratorWorkDirFields \subseteq DOMAIN call.output[1].ret

(***************************************************************************)
(* C15..C18: timecode conversions (SpecTimecode)                           *)
(***************************************************************************)

\* How many times c occurs in a text
Count(text, c) == Cardinality({ i \in 1..Len(text) : text[i] = c })

IsDigits(text) == text # << >> /\ \A i \in 1..Len(text) : text[i] \in DigitChars

\* A text of the shape H..HH:MM:SS,mmm (two hour digits or more)
IsSrtShape(text) ==
    LET n == Len(text)
    IN /\ n >= 12
       /\ IsDigits(SubSeq(text, 1, n - 10))
       /\ text[n - 9] = ":"
       /\ IsDigits(SubSeq(text, n - 8, n - 7))
       /\ text[n - 6] = ":"
       /\ IsDigits(SubSeq(text, n - 5, n - 4))
       /\ text[n - 3] = ","
       /\ IsDigits(SubSeq(text, n - 2, n))

\* The numbers such a text shows
SrtShown(text) ==
    LET n == Len(text)
    IN [ hours   |-> DecValue(SubSeq(text, 1, n - 10)),
         minutes |-> DecValue(SubSeq(text, n - 8, n - 7)),
         secs    |-> DecValue(SubSeq(text, n - 5, n - 4)),
         millis  |-> DecValue(SubSeq(text, n - 2, n)) ]

\* C15: for s = k / 1000, a whole number of milliseconds,
\* srt_time_to_seconds(seconds_to_srt_time(s)) returns and returns s itself.
C15_RoundTripIsIdentity ==
    (call.fn = "round_trip" /\ call.done) =>
        /\ call.output.back.error = "none"
        /\ call.output.back.value = FloatDiv(call.input, 1000)

\* C16: seconds_to_srt_time gives "00:00:00,000" for a negative input; for a
\* non-negative input of T milliseconds it gives HH:MM:SS,mmm with
\* HH = T div 3600000 (never wrapped), MM < 60, SS < 60, mmm < 1000 and the
\* four adding up to T, the hours on two digits or more; 3661.5 gives
\* "01:01:01,500"; an input between two milliseconds shows one of the two.
C16_SrtTimeShowsTotal ==
    (call.fn = "seconds_to_srt_time" /\ call.done) =>
        /\ IsSrtShape(call.output)
        /\ call.input.neg =>
               call.output = << "0", "0", ":", "0", "0", ":", "0", "0", ",", "0", "0", "0" >>
        /\ LET shown == SrtShown(call.output)
               total == shown.hours * 3600000 + shown.minutes * 60000
                        + shown.secs * 1000 + shown.millis
           IN /\ shown.minutes < 60 /\ shown.secs < 60 /\ shown.millis < 1000
              /\ Len(call.output) = 10 + (IF shown.hours < 100 THEN 2
                                          ELSE Len(DecDigits(shown.hours)))
              /\ (~ call.input.neg /\ call.input.den = 1000) =>
                     /\ shown.hours = call.input.num \div 3600000
                     /\ total = call.input.num
              /\ (~ call.input.neg /\ call.input.den = 10000) =>
                     /\ 10 * total - call.input.num <= 5
                     /\ call.input.num - 10 * total <= 5
        /\ call.input = [neg |-> FALSE, num |-> 3661500, den |-> 1000] =>
               call.output = << "0", "1", ":", "0", "1", ":", "0", "1", ",", "5", "0", "0" >>

C16_HourAndAHalfShown ==
    /\ call.fn = "seconds_to_srt_time"
    /\ call.done
    /\ call.input = [neg |-> FALSE, num |-> 3661500, den |-> 1000]
    /\ call.output = << "0", "1", ":", "0", "1", ":", "0", "1", ",", "5", "0", "0" >>

\* C17: srt_time_to_ass_time turns HH:MM:SS,mmm into H:MM:SS.cc with the
\* hours unpadded, minutes and seconds unchanged and cc = mmm div 10;
\* "01:01:01,500" gives "1:01:01.50" and "00:00:00,009" gives "0:00:00.00".
C17_AssTimeTruncatesToCentiseconds ==
    (call.fn = "srt_time_to_ass_time" /\ call.done) =>
        LET k == call.input.millis
        IN /\ call.output.error = "none"
           /\ call.output.value =
                  DecDigits(k \div 3600000) \o << ":" >>
                  \o FormatInt((k \div 60000) % 60, 2) \o << ":" >>
                  \o FormatInt((k \div 1000) % 60, 2) \o << "." >>
                  \o FormatInt((k % 1000) \div 10, 2)
           /\ k = 3661500 =>
                  call.output.value = << "1", ":", "0", "1", ":", "0", "1", ".", "5", "0" >>
           /\ k = 9 =>
                  call.output.value = << "0", ":", "0", "0", ":", "0", "0", ".", "0", "0" >>

C17_NineMillisecondsTruncated ==
    /\ call.fn = "srt_time_to_ass_time"
    /\ call.done
    /\ call.input.text = << "0", "0", ":", "0", "0", ":", "0", "0", ",", "0", "0", "9" >>
    /\ call.output.value = << "0", ":", "0", "0", ":", "0", "0", ".", "0", "0" >>

\* The fields of a text: what stands between its separators
SeparatedFields(text) ==
    LET colons == [i \in 1..Len(text) |-> IF text[i] = "," THEN ":" ELSE text[i]]
        parts == SplitAll(colons, ":")
    IN { parts[i] : i \in 1..Len(parts) }

\* Not of the form HH:MM:SS,mmm: a wrong number of ':' or of ',', or a field
\* that is not a number
Malformed(text) ==
    \/ Count(text, ":") # 2
    \/ Count(text, ",") # 1
    \/ \E field \in SeparatedFields(text) : ~ IsDigits(field)

\* C18: srt_time_to_seconds raises ValueError, and returns nothing, on every
\* text with a wrong number of ':' or ',' or with a non-numeric field.
C18_MalformedTimestampRaises ==
    (call.fn = "srt_time_to_seconds" /\ call.done /\ Malformed(call.input)) =>
        /\ call.output.error = "ValueError"
        /\ call.output.value = None

C18_NonNumericFieldRaised ==
    /\ call.fn = "srt_time_to_seconds"
    /\ call.done
    /\ call.input = << "1", ":", "x", ":", "1", ",", "1" >>
    /\ call.output.error = "ValueError"

(***************************************************************************)
(* write_srt (src/utils/io_utils.py) and its specification (SpecSrt)       *)
(***************************************************************************)

\* Longest segment list handed to write_srt.
MaxBlocks == 2

\* "\n".join(lines)
RECURSIVE Join(_, _)
Join(lines, sep) ==
    IF lines = << >> THEN << >>
    ELSE IF Len(lines) = 1 THEN lines[1]
    ELSE Join(SubSeq(lines, 1, Len(lines) - 1), sep) \o sep \o lines[Len(lines)]

\* seg.get(key, default): a segment is a dict, has holds the keys it carries
SegGet(seg, key, default) == IF key \in seg.has THEN seg[key] ELSE default

\* float(...) of a time the segment gives in milliseconds: the float ms / 1000
SecondsOf(ms) == FloatDiv(ms, 1000)

Arrow == << " ", "-", "-", ">", " " >>

\* Mutant of SrtBlock: a segment whose text is empty is left out.
SrtBlock_DropsEmptyText(idx, seg) ==
    LET start == SegGet(seg, "start", 0)
        end == SegGet(seg, "end", start)
        text == Strip(SegGet(seg, "text", << >>))
    IN IF text = << >> THEN << >>
       ELSE << DecDigits(idx),
               seconds_to_srt_time(SecondsOf(start)) \o Arrow \o seconds_to_srt_time(SecondsOf(end)),
               text,
               << >> >>

\* Lines 29-35: the four lines appended for segment number idx
SrtBlock(idx, seg) ==
    LET start == SegGet(seg, "start", 0)
        end == SegGet(seg, "end", start)
        text == Strip(SegGet(seg, "text", << >>))
    IN << DecDigits(idx),
          seconds_to_srt_time(SecondsOf(start)) \o Arrow \o seconds_to_srt_time(SecondsOf(end)),
          text,
          << >> >>

\* Lines 27-35: for idx, seg in enumerate(segments, start=1)
RECURSIVE SrtLines(_)
SrtLines(segments) ==
    IF segments = << >> THEN << >>
    ELSE SrtLines(SubSeq(segments, 1, Len(segments) - 1))
         \o SrtBlock(Len(segments), segments[Len(segments)])

\* write_text(path, text): the file is created or overwritten
write_text(f, path, text) == WriteFile(f, path, text)

\* write_srt(path, segments)
write_srt(f, path, segments) == write_text(f, path, Join(SrtLines(segments), << "\n" >>))

SrtOut == "out.srt"

\* Segment times, in milliseconds
SrtTimes == { << 0, 1200 >>, << 1200, 2600 >>, << 3661500, 3662000 >> }

\* Segment texts: empty, plain, blank-padded, blank only, blank inside
SrtTexts == { << >>, << "H", "i" >>, << " ", "H", "i", " " >>, << " " >>, << "a", " ", "b" >> }

\* Segments with every key, without "end", with "text" only, without "text"
SrtSegments ==
    { [has |-> has,
       start |-> IF "start" \in has THEN t[1] ELSE 0,
       end |-> IF "end" \in has THEN t[2] ELSE 0,
       text |-> IF "text" \in has THEN text ELSE << >>] :
        has \in { { "start", "end", "text" }, { "start", "text" }, { "text" }, { "start", "end" } },
        t \in SrtTimes, text \in SrtTexts }

SrtInputs == UNION { [1..n -> SrtSegments] : n \in 0..MaxBlocks }

SrtInit ==
    /\ IdlePipeline
    /\ fs \in { EmptyFs, WriteFile(EmptyFs, SrtOut, << "o", "l", "d" >>) }
    /\ prior = [paths |-> DOMAIN fs, fetches |-> 0]
    /\ \E segments \in SrtInputs :
           call = [fn |-> "write_srt", input |-> segments, output |-> None, done |-> FALSE]

CallWriteSrt ==
    /\ call.fn = "write_srt"
    /\ ~ call.done
    /\ fs' = write_srt(fs, SrtOut, call.input)
    /\ call' = [call EXCEPT !.done = TRUE]
    /\ UtilFrame

SrtNext == CallWriteSrt

SpecSrt == SrtInit /\ [][SrtNext]_vars

(***************************************************************************)
(* C14: the blocks write_srt emits (SpecSrt)                               *)
(***************************************************************************)

\* The milliseconds a timestamp of a subtitle file shows
ShownMillis(text) ==
    LET shown == SrtShown(text)
    IN shown.hours * 3600000 + shown.minutes * 60000 + shown.secs * 1000 + shown.millis

\* line is text without the blanks around it
IsStripped(line, text) ==
    /\ line = << >> \/ (line[1] # " " /\ line[Len(line)] # " ")
    /\ \E a \in 0..Len(text) :
           /\ a + Len(line) <= Len(text)
           /\ SubSeq(text, a + 1, a + Len(line)) = line
           /\ \A i \in 1..Len(text) : (i <= a \/ i > a + Len(line)) => text[i] = " "

\* C14: for a list of n segments the file write_srt writes holds exactly n
\* blocks in input order; block i is the line i, a line "start --> end" showing
\* the segment's times, the segment's text without the blanks around it, and an
\* empty line; a segment with empty text still gets its block, with an empty
\* text line, and the blocks after it keep their numbers.
C14_SrtBlocksFollowSegments ==
    (call.fn = "write_srt" /\ call.done) =>
        LET segments == call.input
            n == Len(segments)
            lines == SplitAll(fs[SrtOut], "\n")
        IN /\ Exists(fs, SrtOut)
           /\ n = 0 => fs[SrtOut] = << >>
           /\ n > 0 =>
                /\ Len(lines) = 4 * n
                /\ \A i \in 1..n :
                     LET seg == segments[i]
                         start == SegGet(seg, "start", 0)
                         times == lines[4 * i - 2]
                     IN /\ lines[4 * i - 3] = DecDigits(i)
                        /\ Len(times) = 29
                        /\ IsSrtShape(SubSeq(times, 1, 12))
                        /\ ShownMillis(SubSeq(times, 1, 12)) = start
                        /\ SubSeq(times, 13, 17) = Arrow
                        /\ IsSrtShape(SubSeq(times, 18, 29))
                        /\ ShownMillis(SubSeq(times, 18, 29)) = SegGet(seg, "end", start)
                        /\ IsStripped(lines[4 * i - 1], SegGet(seg, "text", << >>))
                        /\ lines[4 * i] = << >>

C14_EmptyTextBlockKeepsNumbering ==
    /\ call.fn = "write_srt"
    /\ call.done
    /\ Len(call.input) = 2
    /\ call.input[1].text = << >>
    /\ call.input[2].text = << "H", "i" >>
    /\ LET lines == SplitAll(fs[SrtOut], "\n")
       IN /\ Len(lines) = 8
          /\ lines[1] = << "1" >>
          /\ lines[3] = << >>
          /\ lines[5] = << "2" >>
          /\ lines[7] = << "H", "i" >>

(***************************************************************************)
(* Configuration (src/utils/config.py) and its specification (SpecConfig)  *)
(***************************************************************************)

\* The dataclasses with their defaults.  box_opacity and temperature are in
\* tenths (6 is 0.6).
VideoConfig == [url |-> "", tmp_downloads_dir |-> "tmp_downloads", input_language |-> ""]

ASRConfig == [backend |-> "local", whisper_model |-> "base",
              groq_model |-> "distil-whisper-large-v3-en"]

EnhancerConfig == [enabled |-> TRUE, temperature |-> 0]

TranslatorConfig == [enabled |-> FALSE, target_language |-> "", temperature |-> 1]

LLMConfig == [backend |-> "groq", model |-> "llama3-8b-8192",
              enhancer |-> EnhancerConfig, translator |-> TranslatorConfig]

SubtitleConfig == [mode |-> "soft", box_opacity |-> 6]

APIConfig == [groq_api_key |-> ""]

AudioConfig == [sample_rate |-> 16000, mono |-> TRUE]

OutputConfig == [audio_dir |-> "audio", transcripts_dir |-> "transcripts",
                 enhanced_dir |-> "enhanced", translated_dir |-> "translated",
                 subtitled_dir |-> "subtitled"]

ProcessingConfig == [audio |-> AudioConfig, output |-> OutputConfig]

VADParameters == [min_silence_duration_ms |-> 500]

FasterWhisperConfig == [device |-> "auto", compute_type |-> "float16", beam_size |-> 5,
                        vad_filter |-> TRUE, vad_parameters |-> VADParameters,
                        word_timestamps |-> FALSE]

RetryConfig == [max_attempts |-> 3, delay_seconds |-> 1]

AdvancedConfig == [faster_whisper |-> FasterWhisperConfig, retry |-> RetryConfig]

\* The fields of Config with their default_factory values
ConfigFields == [video |-> VideoConfig, asr |-> ASRConfig, llm |-> LLMConfig,
                 subtitles |-> SubtitleConfig, api |-> APIConfig,
                 processing |-> ProcessingConfig, advanced |-> AdvancedConfig]

EmptyDict == [k \in {} |-> 0]

\* What a constructor or load_config comes to: a value, or an exception of a
\* kind, which for a ValueError names a field
Built(value) == [error |-> "none", field |-> "", value |-> value]

Failed(kind, field) == [error |-> kind, field |-> field, value |-> EmptyDict]

\* cls(**kwargs): a keyword that is no field of the dataclass is a TypeError,
\* a field without keyword takes its default
Dataclass(fields, kwargs) ==
    IF DOMAIN kwargs \subseteq DOMAIN fields
    THEN Built([k \in DOMAIN fields |-> IF k \in DOMAIN kwargs THEN kwargs[k] ELSE fields[k]])
    ELSE Failed("TypeError", "")

\* Lines 137-153: Config.__post_init__
post_init(cfg, env) ==
    LET keyed == IF cfg.api.groq_api_key = ""
                 THEN [cfg EXCEPT !.api.groq_api_key = env]
                 ELSE cfg
    IN IF cfg.asr.backend \notin { "local", "groq" } THEN Failed("ValueError", "asr.backend")
       ELSE IF cfg.subtitles.mode \notin { "soft", "burn" }
            THEN Failed("ValueError", "subtitles.mode")
       ELSE IF ~ (0 <= cfg.subtitles.box_opacity /\ cfg.subtitles.box_opacity <= 10)
            THEN Failed("ValueError", "subtitles.box_opacity")
       ELSE Built(keyed)

\* Config(**kwargs) with GROQ_API_KEY = env in the environment
NewConfig(kwargs, env) ==
    LET made == Dataclass(ConfigFields, kwargs)
    IN IF made.error # "none" THEN made ELSE post_init(made.value, env)

\* Lines 159-178: _nested_dict_to_dataclass(cls, data) for a class without
\* dataclass-typed fields (load_config hands it no other): the keys that are
\* no fields are dropped
nested_dict_to_dataclass(fields, data) ==
    IF data = EmptyDict THEN Dataclass(fields, EmptyDict)
    ELSE Dataclass(fields, [k \in DOMAIN data \cap DOMAIN fields |-> data[k]])

\* Lines 221-226: the llm section
LoadLlm(section_data) ==
    Dataclass(LLMConfig,
              [k \in DOMAIN section_data |->
                  IF k = "enhancer"
                  THEN nested_dict_to_dataclass(EnhancerConfig, section_data[k]).value
                  ELSE IF k = "translator"
                       THEN nested_dict_to_dataclass(TranslatorConfig, section_data[k]).value
                       ELSE section_data[k]])

\* Lines 233-238: the processing section
LoadProcessing(section_data) ==
    Dataclass(ProcessingConfig,
              [k \in DOMAIN section_data \cap { "audio", "output" } |->
                  IF k = "audio"
                  THEN nested_dict_to_dataclass(AudioConfig, section_data[k]).value
                  ELSE nested_dict_to_dataclass(OutputConfig, section_data[k]).value])

\* Lines 243-247: advanced.faster_whisper
LoadFasterWhisper(fw_data) ==
    Dataclass(FasterWhisperConfig,
              [k \in DOMAIN fw_data |->
                  IF k = "vad_parameters"
                  THEN nested_dict_to_dataclass(VADParameters, fw_data[k]).value
                  ELSE fw_data[k]])

\* Lines 241-250: the advanced section
LoadAdvanced(section_data) ==
    LET fw == IF "faster_whisper" \in DOMAIN section_data
              THEN LoadFasterWhisper(section_data.faster_whisper)
              ELSE Built(FasterWhisperConfig)
    IN IF fw.error # "none" THEN fw
       ELSE Dataclass(AdvancedConfig,
                      [k \in DOMAIN section_data \cap { "faster_whisper", "retry" } |->
                          IF k = "faster_whisper" THEN fw.value
                          ELSE nested_dict_to_dataclass(RetryConfig, section_data[k]).value])

\* Lines 214-250: one section of the file
LoadSection(section_name, section_data) ==
    CASE section_name = "video" -> nested_dict_to_dataclass(VideoConfig, section_data)
      [] section_name = "asr" -> nested_dict_to_dataclass(ASRConfig, section_data)
      [] section_name = "llm" -> LoadLlm(section_data)
      [] section_name = "subtitles" -> nested_dict_to_dataclass(SubtitleConfig, section_data)
      [] section_name = "api" -> nested_dict_to_dataclass(APIConfig, section_data)
      [] section_name = "processing" -> LoadProcessing(section_data)
      [] section_name = "advanced" -> LoadAdvanced(section_data)

\* load_config(config_path): file is what stands at the path
load_config(file, env) ==
    IF ~ file.exists THEN Failed("FileNotFoundError", "")
    ELSE IF ~ file.valid_yaml THEN Failed("YAMLError", "")
    ELSE LET known == DOMAIN file.data \cap DOMAIN ConfigFields
             sections == [n \in known |-> LoadSection(n, file.data[n])]
         IN IF \E n \in known : sections[n].error # "none"
            THEN Failed("TypeError", "")
            ELSE NewConfig([n \in known |-> sections[n].value], env)

\* Most sections a configuration file of the model holds.
MaxSections == 2

UnknownKey == [zz |-> 1]

\* Sections a file may hold: known keys with values inside and outside the
\* constraints, unknown keys at every level, and an unknown section
SectionPool ==
    { [name |-> "video", data |-> d] : d \in { [url |-> "https://youtu.be/X"], UnknownKey } }
    \cup { [name |-> "asr", data |-> d] :
             d \in { [backend |-> "groq"], [backend |-> "remote"], UnknownKey } }
    \cup { [name |-> "llm", data |-> d] :
             d \in { [model |-> "m"], UnknownKey, [enhancer |-> [enabled |-> FALSE]],
                     [enhancer |-> UnknownKey],
                     [translator |-> [enabled |-> TRUE, target_language |-> "fr", zz |-> 1]] } }
    \cup { [name |-> "subtitles", data |-> d] :
             d \in { [mode |-> "burn"], [mode |-> "blend"], UnknownKey }
                   \cup { [box_opacity |-> o] : o \in { -1, 0, 10, 15 } } }
    \cup { [name |-> "api", data |-> d] : d \in { [groq_api_key |-> "k1"], UnknownKey } }
    \cup { [name |-> "processing", data |-> d] :
             d \in { UnknownKey, [audio |-> [sample_rate |-> 8000, zz |-> 1]],
                     [output |-> UnknownKey] } }
    \cup { [name |-> "advanced", data |-> d] :
             d \in { UnknownKey, [faster_whisper |-> [beam_size |-> 1]],
                     [faster_whisper |-> UnknownKey],
                     [faster_whisper |-> [vad_parameters |-> UnknownKey]],
                     [retry |-> [max_attempts |-> 1, zz |-> 1]] } }
    \cup { [name |-> "telemetry", data |-> UnknownKey] }

SectionNames == { p.name : p \in SectionPool }

\* The mapping a list of sections with different names parses to
DictOf(ps) ==
    [n \in { ps[i].name : i \in 1..Len(ps) } |->
        ps[CHOOSE i \in 1..Len(ps) : ps[i].name = n].data]

\* The mappings a file may parse to: up to MaxSections sections
FileData ==
    { DictOf(ps) :
        ps \in { qs \in UNION { [1..n -> SectionPool] : n \in 0..MaxSections } :
                   \A i, j \in 1..Len(qs) : qs[i].name = qs[j].name => i = j } }

ConfigFiles ==
    { [exists |-> FALSE, valid_yaml |-> TRUE, data |-> EmptyDict],
      [exists |-> TRUE, valid_yaml |-> FALSE, data |-> EmptyDict] }
    \cup { [exists |-> TRUE, valid_yaml |-> TRUE, data |-> d] : d \in FileData }

\* Keyword arguments Config is constructed with
ConfigKwargs ==
    { EmptyDict }
    \cup { [asr |-> [ASRConfig EXCEPT !.backend = b],
            subtitles |-> [SubtitleConfig EXCEPT !.mode = m, !.box_opacity = o]] :
             b \in { "local", "groq", "remote" }, m \in { "soft", "burn", "blend" },
             o \in { -1, 0, 6, 10, 11, 15 } }

\* GROQ_API_KEY in the environment ("" when unset)
EnvKeys == { "", "gsk" }

ConfigInit ==
    /\ IdlePipeline
    /\ fs = EmptyFs
    /\ prior = [paths |-> {}, fetches |-> 0]
    /\ \/ \E kwargs \in ConfigKwargs, env \in EnvKeys :
            call = [fn |-> "Config", done |-> FALSE, output |-> Failed("none", ""),
                    input |-> [kwargs |-> kwargs, env |-> env]]
       \/ \E file \in ConfigFiles, env \in EnvKeys :
            call = [fn |-> "load_config", done |-> FALSE, output |-> Failed("none", ""),
                    input |-> [file |-> file, env |-> env]]

CallConfig ==
    /\ call.fn = "Config"
    /\ ~ call.done
    /\ call' = [call EXCEPT !.output = NewConfig(call.input.kwargs, call.input.env),
                            !.done = TRUE]
    /\ UNCHANGED fs
    /\ UtilFrame

CallLoadConfig ==
    /\ call.fn = "load_config"
    /\ ~ call.done
    /\ call' = [call EXCEPT !.output = load_config(call.input.file, call.input.env),
                            !.done = TRUE]
    /\ UNCHANGED fs
    /\ UtilFrame

ConfigNext == CallConfig \/ CallLoadConfig

SpecConfig == ConfigInit /\ [][ConfigNext]_vars

(***************************************************************************)
(* C21..C23: validating and loading a configuration (SpecConfig)           *)
(***************************************************************************)

\* The value given for section.key, or the default when none is given
Given(data, section, key) ==
    IF section \in DOMAIN data /\ key \in DOMAIN data[section]
    THEN data[section][key]
    ELSE ConfigFields[section][key]

\* What the call was given: keyword arguments or the mapping of a readable file
GivenData == IF call.fn = "Config" THEN call.input.kwargs ELSE call.input.file.data

Readable == call.fn = "Config" \/ (call.input.file.exists /\ call.input.file.valid_yaml)

BackendAllowed == Given(GivenData, "asr", "backend") \in { "local", "groq" }

ModeAllowed == Given(GivenData, "subtitles", "mode") \in { "soft", "burn" }

OpacityAllowed ==
    /\ Given(GivenData, "subtitles", "box_opacity") >= 0
    /\ Given(GivenData, "subtitles", "box_opacity") <= 10

\* The field the ValueError of a constraint violation may name
ViolatedFields ==
    (IF BackendAllowed THEN {} ELSE { "asr.backend" })
    \cup (IF ModeAllowed THEN {} ELSE { "subtitles.mode" })
    \cup (IF OpacityAllowed THEN {} ELSE { "subtitles.box_opacity" })

\* C21: constructing a Config, or loading one from a readable file, raises
\* ValueError whenever the ASR backend is not an allowed one, the subtitle mode
\* is neither soft nor burn, or box_opacity is below 0.0 or above 1.0; with
\* allowed backend and mode it succeeds for box_opacity 0.0 and 1.0.
C21_InvalidValuesAreRejected ==
    (call.fn \in { "Config", "load_config" } /\ call.done /\ Readable) =>
        /\ ViolatedFields # {} => call.output.error = "ValueError"
        /\ (ViolatedFields = {} /\ Given(GivenData, "subtitles", "box_opacity") \in { 0, 10 })
               => call.output.error = "none"

\* Sections and subsections of the configuration tree
TreeKeys == { "video", "asr", "llm", "subtitles", "api", "processing", "advanced",
              "enhancer", "translator", "audio", "output", "faster_whisper",
              "vad_parameters", "retry" }

\* The tree of defaults with the recognised keys of data laid over it
RECURSIVE Overlay(_, _)
Overlay(defaults, data) ==
    [k \in DOMAIN defaults |->
        IF k \notin DOMAIN data THEN defaults[k]
        ELSE IF k \in TreeKeys THEN Overlay(defaults[k], data[k])
        ELSE data[k]]

\* C22: load_config on a readable file whose values satisfy the constraints
\* returns, without raising, whatever unknown sections and unknown keys the
\* file holds at any level; every recognised key has the file's value and
\* every field absent from the file has its default (the API key: the
\* environment's).
C22_UnknownKeysAreIgnored ==
    (call.fn = "load_config" /\ call.done /\ Readable /\ ViolatedFields = {}) =>
        /\ call.output.error = "none"
        /\ LET expected == Overlay(ConfigFields, call.input.file.data)
           IN call.output.value =
                  IF expected.api.groq_api_key = ""
                  THEN [expected EXCEPT !.api.groq_api_key = call.input.env]
                  ELSE expected

\* C23: load_config raises FileNotFoundError for a path that does not exist,
\* YAMLError for a file that does not parse, and for a parsed file violating a
\* constraint a ValueError naming a violated field; it returns a Config only
\* for an existing, parsing file whose values satisfy the constraints, and
\* hands out no Config when it raises.
C23_LoadFailsByKind ==
    (call.fn = "load_config" /\ call.done) =>
        /\ ~ call.input.file.exists => call.output.error = "FileNotFoundError"
        /\ (call.input.file.exists /\ ~ call.input.file.valid_yaml)
               => call.output.error = "YAMLError"
        /\ (Readable /\ ViolatedFields # {}) =>
               /\ call.output.error = "ValueError"
               /\ call.output.field \in ViolatedFields
        /\ call.output.error = "none" => (Readable /\ ViolatedFields = {})
        /\ call.output.error # "none" => call.output.value = EmptyDict

(***************************************************************************)
(* The command lines (src/main.py, src/pipeline/run.py main) up to the     *)
(* call of the pipeline, and their specification (SpecCli)                 *)
(***************************************************************************)

\* Mutant of FlagApplies: an absent flag is applied like a given one.
FlagApplies_Always(value) == TRUE

\* `if args.flag:` - the flag was given and its value is not the empty string
FlagApplies(value) == Truthy(value)

\* The value a flag writes into the configuration (an absent one: nothing, "")
FlagValue(value) == IF value = None THEN "" ELSE value

\* src/main.py lines 39-53: the overrides of the root entry point
main_overrides(config0, flags) ==
    LET c1 == IF FlagApplies(flags.url)
              THEN [config0 EXCEPT !.video.url = FlagValue(flags.url)] ELSE config0
        c2 == IF FlagApplies(flags.asr_backend)
              THEN [c1 EXCEPT !.asr.backend = FlagValue(flags.asr_backend)] ELSE c1
        c3 == IF FlagApplies(flags.whisper_model)
              THEN [c2 EXCEPT !.asr.whisper_model = FlagValue(flags.whisper_model)] ELSE c2
        c4 == IF FlagApplies(flags.llm_backend)
              THEN [c3 EXCEPT !.llm.backend = FlagValue(flags.llm_backend)] ELSE c3
        c5 == IF FlagApplies(flags.subtitle_mode)
              THEN [c4 EXCEPT !.subtitles.mode = FlagValue(flags.subtitle_mode)] ELSE c4
        c6 == IF FlagApplies(flags.target_lang)
              THEN [c5 EXCEPT !.llm.translator.target_language = FlagValue(flags.target_lang),
                              !.llm.translator.enabled = TRUE]
              ELSE c5
    IN IF flags.box_opacity.given
       THEN [c6 EXCEPT !.subtitles.box_opacity = flags.box_opacity.value] ELSE c6

\* src/pipeline/run.py lines 559-575: the same with --input-lang before
\* --box-opacity
run_main_overrides(config0, flags) ==
    LET c6 == main_overrides(config0, [flags EXCEPT !.box_opacity.given = FALSE])
        c7 == IF FlagApplies(flags.input_lang)
              THEN [c6 EXCEPT !.video.input_language = FlagValue(flags.input_lang)] ELSE c6
    IN IF flags.box_opacity.given
       THEN [c7 EXCEPT !.subtitles.box_opacity = flags.box_opacity.value] ELSE c7

\* Mutant of UrlMissing: the URL is not asked for.
UrlMissing_Never(url) == FALSE

\* `if not config.video.url` / `if not args.url`
UrlMissing(url) == ~ Truthy(url)

\* How a command line ends before the pipeline, or the call it makes
CliExit(code, loaded) ==
    [exit |-> code, started |-> "none", loaded |-> loaded, config |-> ConfigFields,
     kwargs |-> EmptyDict]

CliRun(function, loaded, cfg, kwargs) ==
    [exit |-> -1, started |-> function, loaded |-> loaded, config |-> cfg, kwargs |-> kwargs]

\* src/main.py main(): load_config(args.config) reads the file at the given
\* or the default path
main(flags, file, env) ==
    LET loaded == load_config(file, env)
    IN IF loaded.error # "none" THEN CliExit(1, ConfigFields)
       ELSE LET cfg == main_overrides(loaded.value, flags)
            IN IF UrlMissing(cfg.video.url) THEN CliExit(1, loaded.value)
               ELSE CliRun("run_pipeline_with_config", loaded.value, cfg, EmptyDict)

\* src/pipeline/run.py lines 583-600: the keyword arguments of the legacy call
\* (getattr finds every attribute, so its default is never used)
LegacyKwargs(flags) ==
    [url |-> flags.url, asr_backend |-> flags.asr_backend,
     whisper_model |-> flags.whisper_model, llm_backend |-> flags.llm_backend,
     subtitle_mode |-> flags.subtitle_mode, target_lang |-> flags.target_lang,
     box_opacity |-> flags.box_opacity, input_language |-> flags.input_lang]

\* src/pipeline/run.py main()
run_main(flags, file, env) ==
    IF flags.config
    THEN LET loaded == load_config(file, env)
         IN IF loaded.error # "none" THEN CliExit(1, ConfigFields)
            ELSE LET cfg == run_main_overrides(loaded.value, flags)
                 IN IF UrlMissing(cfg.video.url) THEN CliExit(1, loaded.value)
                    ELSE CliRun("run_pipeline_with_config", loaded.value, cfg, EmptyDict)
    ELSE IF UrlMissing(flags.url) THEN CliExit(1, ConfigFields)
    ELSE CliRun("run_pipeline", ConfigFields, ConfigFields, LegacyKwargs(flags))

\* Command lines: every flag absent (None) or given; --url, --whisper-model,
\* --target-lang and --input-lang also given as the empty string
CliFlags ==
    [ config : BOOLEAN,
      url : { None, "", "https://youtu.be/X" },
      asr_backend : { None, "groq" },
      whisper_model : { None, "", "small" },
      llm_backend : { None, "groq" },
      subtitle_mode : { None, "burn" },
      target_lang : { None, "", "Spanish" },
      input_lang : { None, "", "en" },
      box_opacity : { [given |-> FALSE, value |-> 0], [given |-> TRUE, value |-> 0],
                      [given |-> TRUE, value |-> 3], [given |-> TRUE, value |-> 15] } ]

\* What stands at the path of the configuration file: nothing, a file that
\* does not parse, an empty file, and files that set the overridable fields
CliFiles ==
    { [exists |-> FALSE, valid_yaml |-> TRUE, data |-> EmptyDict],
      [exists |-> TRUE, valid_yaml |-> FALSE, data |-> EmptyDict],
      [exists |-> TRUE, valid_yaml |-> TRUE, data |-> EmptyDict],
      [exists |-> TRUE, valid_yaml |-> TRUE,
       data |-> [video |-> [url |-> "https://youtu.be/Y"]]],
      [exists |-> TRUE, valid_yaml |-> TRUE,
       data |-> [video |-> [url |-> "https://youtu.be/Y", input_language |-> "de"],
                 asr |-> [backend |-> "local", whisper_model |-> "large"],
                 llm |-> [model |-> "m", translator |-> [target_language |-> "French"]],
                 subtitles |-> [mode |-> "soft", box_opacity |-> 8]]],
      [exists |-> TRUE, valid_yaml |-> TRUE,
       data |-> [asr |-> [whisper_model |-> "large"],
                 llm |-> [enhancer |-> [enabled |-> FALSE],
                          translator |-> [enabled |-> TRUE, target_language |-> "French"]]]] }

\* The root entry point has no --input-lang and reads the default path when
\* --config is absent
CliInit ==
    /\ IdlePipeline
    /\ fs = EmptyFs
    /\ prior = [paths |-> {}, fetches |-> 0]
    /\ \E fn \in { "main", "run_main" }, flags \in CliFlags, file \in CliFiles :
         /\ fn = "main" => flags.input_lang = None
         /\ (fn = "run_main" /\ ~ flags.config) => file = [exists |-> FALSE, valid_yaml |-> TRUE,
                                                        data |-> EmptyDict]
         /\ call = [fn |-> fn, done |-> FALSE, output |-> CliExit(-1, ConfigFields),
                    input |-> [flags |-> flags, file |-> file, env |-> ""]]

CallMain ==
    /\ call.fn = "main"
    /\ ~ call.done
    /\ call' = [call EXCEPT !.output = main(call.input.flags, call.input.file, call.input.env),
                            !.done = TRUE]
    /\ UNCHANGED fs
    /\ UtilFrame

CallRunMain ==
    /\ call.fn = "run_main"
    /\ ~ call.done
    /\ call' = [call EXCEPT
                    !.output = run_main(call.input.flags, call.input.file, call.input.env),
                    !.done = TRUE]
    /\ UNCHANGED fs
    /\ UtilFrame

CliNext == CallMain \/ CallRunMain

SpecCli == CliInit /\ [][CliNext]_vars

(***************************************************************************)
(* C24, C25: the command-line overrides and the required URL (SpecCli)     *)
(***************************************************************************)

\* The loaded configuration with the flags marked in ap written over it, and
\* the translator switched on when the target language is written
Overridden(loaded, flags, ap) ==
    [loaded EXCEPT
        !.video.url = IF ap.url THEN FlagValue(flags.url) ELSE @,
        !.video.input_language = IF ap.input_lang THEN FlagValue(flags.input_lang) ELSE @,
        !.asr.backend = IF ap.asr_backend THEN FlagValue(flags.asr_backend) ELSE @,
        !.asr.whisper_model = IF ap.whisper_model THEN FlagValue(flags.whisper_model) ELSE @,
        !.llm.backend = IF ap.llm_backend THEN FlagValue(flags.llm_backend) ELSE @,
        !.llm.translator.target_language =
            IF ap.target_lang THEN FlagValue(flags.target_lang) ELSE @,
        !.llm.translator.enabled = IF ap.target_lang THEN TRUE ELSE @,
        !.subtitles.mode = IF ap.subtitle_mode THEN FlagValue(flags.subtitle_mode) ELSE @,
        !.subtitles.box_opacity = IF ap.box_opacity THEN flags.box_opacity.value ELSE @]

StringFlags == { "url", "input_lang", "asr_backend", "whisper_model", "llm_backend",
                 "target_lang", "subtitle_mode" }

\* The flags present on the command line
FlagsGiven(flags) ==
    [k \in StringFlags \cup { "box_opacity" } |->
        IF k = "box_opacity" THEN flags.box_opacity.given ELSE flags[k] # None]

\* The flags present with a value other than the empty string
FlagsWithValue(flags) ==
    [k \in StringFlags \cup { "box_opacity" } |->
        IF k = "box_opacity" THEN flags.box_opacity.given ELSE flags[k] \notin { None, "" }]

OverridesApplied == call.fn \in { "main", "run_main" } /\ call.done
                    /\ call.output.started = "run_pipeline_with_config"

\* C24 as stated: the configuration handed to the pipeline is the loaded one
\* with exactly the fields changed whose flag is on the command line (and
\* translator.enabled true with --target-lang).
C24_GivenFlagsOverride ==
    OverridesApplied =>
        call.output.config = Overridden(call.output.loaded, call.input.flags,
                                        FlagsGiven(call.input.flags))

\* C24, amended: the configuration handed to the pipeline is the loaded one
\* with exactly the fields changed whose flag is on the command line with a
\* non-empty value (--box-opacity: with any value, 0.0 included); every other
\* field keeps its loaded value; --target-lang with a value also sets
\* translator.enabled.
C24_FlagsWithValueOverride ==
    OverridesApplied =>
        call.output.config = Overridden(call.output.loaded, call.input.flags,
                                        FlagsWithValue(call.input.flags))

C24_TargetLanguageEnablesTranslator ==
    /\ OverridesApplied
    /\ call.input.flags.target_lang = "Spanish"
    /\ call.input.flags.whisper_model = None
    /\ call.input.flags.box_opacity = [given |-> TRUE, value |-> 0]
    /\ call.output.loaded.llm.translator.enabled = FALSE
    /\ call.output.loaded.asr.whisper_model = "large"
    /\ call.output.config.llm.translator.enabled
    /\ call.output.config.llm.translator.target_language = "Spanish"
    /\ call.output.config.asr.whisper_model = "large"
    /\ call.output.config.subtitles.box_opacity = 0

\* The URL the configuration file gives, "" when the command line reads no
\* file, the file does not load or it holds no URL
FileUrl ==
    LET file == call.input.file
    IN IF /\ call.fn = "main" \/ call.input.flags.config
          /\ file.exists /\ file.valid_yaml
          /\ "video" \in DOMAIN file.data
          /\ "url" \in DOMAIN file.data.video
       THEN file.data.video.url
       ELSE ""

\* C25: a command line whose URL comes neither from the configuration file
\* nor from --url exits with status 1 without calling the pipeline: no stage
\* is logged, nothing is downloaded, nothing is written.
C25_MissingUrlExitsBeforePipeline ==
    (call.fn \in { "main", "run_main" } /\ call.done
     /\ FileUrl = "" /\ call.input.flags.url \in { None, "" }) =>
        /\ call.output.exit = 1
        /\ call.output.started = "none"
        /\ callLog = << >>
        /\ fetches = 0
        /\ fs = EmptyFs

C25_LoadedConfigWithoutUrlExits ==
    /\ call.fn = "main"
    /\ call.done
    /\ call.input.file = [exists |-> TRUE, valid_yaml |-> TRUE, data |-> EmptyDict]
    /\ call.input.flags.url = None
    /\ call.input.flags.target_lang = "Spanish"
    /\ call.output.exit = 1
    /\ call.output.started = "none"
    /\ call.output.loaded = ConfigFields

(***************************************************************************)
(* C26: the optional fields of the manifest (Spec)                         *)
(***************************************************************************)

\* C26: in every manifest run_pipeline_with_config returns, enhanced_json and
\* enhanced_srt are paths exactly when the enhancer is enabled (None
\* otherwise); translated_json, translated_srt and target_language are fields
\* exactly when translation is enabled with a target language; and
\* separation_results is a field only when separation is enabled and returned
\* a non-empty result.
C26_ManifestFieldsReflectStages ==
    (entry = "config" /\ Returned) =>
        /\ manifest.enhanced_json # None <=> config.enhancer_enabled
        /\ manifest.enhanced_srt # None <=> config.enhancer_enabled
        /\ \A k \in { "translated_json", "translated_srt", "target_language" } :
               k \in DOMAIN manifest
                   <=> (config.translator_enabled /\ config.target_language # "")
        /\ "separation_results" \in DOMAIN manifest =>
               (config.separation = "enabled" /\ manifest.separation_results # {})

C26_ManifestWithoutEnhancement ==
    /\ entry = "config"
    /\ Returned
    /\ ~ config.enhancer_enabled
    /\ manifest.enhanced_json = None
    /\ manifest.enhanced_srt = None
    /\ "translated_json" \notin DOMAIN manifest
    /\ "separation_results" \notin DOMAIN manifest

(***************************************************************************)
(* The language-model adapters: enhance_with_groq (enhancer/               *)
(* enhance_transcript.py) and translate_with_openai (translator/           *)
(* translate_transcript.py)                                                *)
(***************************************************************************)

\* The backend is given by what it does with a request that carries
\* response_format={"type": "json_object"} (hinted) and with one that does
\* not (plain). A reply either raises or is a completion with its list of
\* choices; a choice is the message content: None, or a text with what
\* json.loads makes of it (parses, the type and value of the data) and
\* whether the stripped text starts with "[".
JsonHint == "json_object"

LlmRequest(response_format, segments) ==
    [response_format |-> response_format, user |-> segments]

ReplyRaises == [raises |-> TRUE, choices |-> << >>]

Completion(choices) == [raises |-> FALSE, choices |-> choices]

\* A content whose JSON is an object: segments is the value under "segments"
JsonObject(keys, segments) ==
    [text |-> TRUE, parses |-> TRUE, bracket |-> FALSE, type |-> "dict", keys |-> keys,
     items |-> segments]

\* A content whose JSON is an array
JsonArray(segments) ==
    [text |-> TRUE, parses |-> TRUE, bracket |-> TRUE, type |-> "list", keys |-> {},
     items |-> segments]

\* A content whose JSON is a number
JsonNumber ==
    [text |-> TRUE, parses |-> TRUE, bracket |-> FALSE, type |-> "int", keys |-> {},
     items |-> << >>]

\* A content that is not JSON
NotJson(bracket) ==
    [text |-> TRUE, parses |-> FALSE, bracket |-> bracket, type |-> "none", keys |-> {},
     items |-> << >>]

\* message.content is None
NoContent ==
    [text |-> FALSE, parses |-> FALSE, bracket |-> FALSE, type |-> "none", keys |-> {},
     items |-> << >>]

\* client.chat.completions.create(**request_kwargs[, response_format=...])
create(backend, request) ==
    IF request.response_format = JsonHint THEN backend.hinted ELSE backend.plain

\* Mutant of chat_completion: the retry carries the hint again.
chat_completion_RetriesWithHint(backend, segments) ==
    LET first == LlmRequest(JsonHint, segments)
        second == LlmRequest(JsonHint, segments)
    IN IF ~ create(backend, first).raises
       THEN [requests |-> << first >>, reply |-> create(backend, first)]
       ELSE [requests |-> << first, second >>, reply |-> create(backend, second)]

\* The try/except around the request: one request with the hint, and when it
\* raised one request without it, whose exception is not caught
chat_completion(backend, segments) ==
    LET first == LlmRequest(JsonHint, segments)
        second == LlmRequest(None, segments)
    IN IF ~ create(backend, first).raises
       THEN [requests |-> << first >>, reply |-> create(backend, first)]
       ELSE [requests |-> << first, second >>, reply |-> create(backend, second)]

LlmFailed(kind, requests) == [error |-> kind, value |-> << >>, requests |-> requests]

LlmReturned(segments, requests) == [error |-> "none", value |-> segments, requests |-> requests]

\* From "if not getattr(completion, 'choices', None)" to the end of the
\* adapter: the segments of the first choice's JSON, as the backend gave them
completion_segments(attempt) ==
    LET reply == attempt.reply
        content == reply.choices[1]
    IN IF reply.raises THEN LlmFailed("APIError", attempt.requests)
       ELSE IF reply.choices = << >> THEN LlmFailed("RuntimeError", attempt.requests)
       ELSE IF ~ content.text THEN LlmFailed("AttributeError", attempt.requests)
       ELSE IF ~ content.parses THEN LlmFailed("JSONDecodeError", attempt.requests)
       ELSE IF content.type = "dict" /\ "segments" \in content.keys
            THEN LlmReturned(content.items, attempt.requests)
       ELSE IF content.type = "list" THEN LlmReturned(content.items, attempt.requests)
       ELSE LlmFailed("ValueError", attempt.requests)

\* enhance_with_groq(segments, config): api_key is config.api.groq_api_key,
\* env_key is GROQ_API_KEY in the environment ("" when unset)
enhance_with_groq(segments, api_key, env_key, backend) ==
    IF ~ Truthy(api_key) /\ ~ Truthy(env_key)
    THEN LlmFailed("ValueError", << >>)
    ELSE completion_segments(chat_completion(backend, segments))

\* translate_with_openai(segments, target_lang)
translate_with_openai(segments, target_lang, backend) ==
    completion_segments(chat_completion(backend, segments))

\* Answers of a language model to two segments: the same boundaries, an end
\* and a start moved, the two segments swapped, one segment, none
LlmAnswers ==
    { SubSeq(LlmPool, 1, 2),
      << Seg(0, 1500, "Hello everybody."), Seg(1500, 2600, "I'm your host.") >>,
      << LlmPool[2], LlmPool[1] >>,
      SubSeq(LlmPool, 1, 1),
      << >> }

LlmContents ==
    { JsonObject({ "segments" }, a) : a \in LlmAnswers }
        \cup { JsonArray(a) : a \in LlmAnswers }
        \cup { JsonObject({ "result" }, << >>), JsonNumber, NotJson(FALSE), NotJson(TRUE),
               NoContent }

LlmReplies == { ReplyRaises, Completion(<< >>) } \cup { Completion(<< c >>) : c \in LlmContents }

LlmServices == [hinted : LlmReplies, plain : LlmReplies]

LlmInputs ==
    { [segments |-> segments, api_key |-> k[1], env_key |-> k[2], target_lang |-> "",
       backend |-> backend] :
        segments \in { SubSeq(AsrPool, 1, n) : n \in 1..MaxSegs },
        k \in { << "gsk", "" >>, << "", "gsk" >>, << "", "" >> },
        backend \in LlmServices }

LlmInit ==
    /\ IdlePipeline
    /\ fs = EmptyFs
    /\ prior = [paths |-> {}, fetches |-> 0]
    /\ \E fn \in { "enhance_with_groq", "translate_with_openai" }, input \in LlmInputs :
           /\ fn = "translate_with_openai" => input.api_key = "" /\ input.env_key = "gsk"
           /\ call = [fn |-> fn,
                      input |-> IF fn = "translate_with_openai"
                                THEN [input EXCEPT !.target_lang = "Spanish"]
                                ELSE input,
                      output |-> None, done |-> FALSE]

CallEnhanceWithGroq ==
    /\ call.fn = "enhance_with_groq"
    /\ ~ call.done
    /\ call' = [call EXCEPT !.done = TRUE,
                            !.output = enhance_with_groq(call.input.segments, call.input.api_key,
                                                         call.input.env_key, call.input.backend)]
    /\ UtilFrame
    /\ UNCHANGED fs

CallTranslateWithOpenai ==
    /\ call.fn = "translate_with_openai"
    /\ ~ call.done
    /\ call' = [call EXCEPT !.done = TRUE,
                            !.output = translate_with_openai(call.input.segments,
                                                             call.input.target_lang,
                                                             call.input.backend)]
    /\ UtilFrame
    /\ UNCHANGED fs

LlmNext == CallEnhanceWithGroq \/ CallTranslateWithOpenai

SpecLlm == LlmInit /\ [][LlmNext]_vars

(***************************************************************************)
(* C27, C28: what the language-model adapters return and request (SpecLlm) *)
(***************************************************************************)

LlmCallDone ==
    call.fn \in { "enhance_with_groq", "translate_with_openai" } /\ call.done

Boundaries(segments) ==
    [i \in 1..Len(segments) |-> << segments[i].start, segments[i].end >>]

Chronological(segments) ==
    \A i, j \in 1..Len(segments) : i < j => segments[i].start <= segments[j].start

\* C27: the segment list Enhance or Translate returns (which run.py hands
\* unchanged to write_srt and to the next stage) is chronological by start
\* and has the (start, end) boundaries of the segments the adapter received,
\* whatever the backend answered.
C27_BoundariesArePreserved ==
    (LlmCallDone /\ call.output.error = "none") =>
        /\ Chronological(call.output.value)
        /\ Boundaries(call.output.value) = Boundaries(call.input.segments)

\* C28: an adapter call makes at most two requests; the first carries the
\* JSON hint; there is a second one exactly when the first raised, and it
\* carries no hint; when the second raises too, its error reaches the caller
\* and there is no third request.
C28_AtMostOneRetryWithoutHint ==
    LlmCallDone =>
        LET requests == call.output.requests
            backend == call.input.backend
        IN /\ Len(requests) <= 2
           /\ Len(requests) >= 1 => requests[1].response_format = JsonHint
           /\ Len(requests) = 2 <=> (Len(requests) >= 1 /\ backend.hinted.raises)
           /\ Len(requests) = 2 => requests[2].response_format = None
           /\ (Len(requests) = 2 /\ backend.plain.raises) =>
                  call.output.error = "APIError"
           /\ \A i \in 1..Len(requests) : requests[i].user = call.input.segments

C28_RetryWithoutHintSucceeded ==
    /\ call.fn = "translate_with_openai"
    /\ call.done
    /\ call.input.backend.hinted.raises
    /\ ~ call.input.backend.plain.raises
    /\ Len(call.output.requests) = 2
    /\ call.output.requests[2].response_format = None
    /\ call.output.error = "none"
    /\ call.output.value = SubSeq(LlmPool, 1, 2)

(***************************************************************************)
(* The transcription adapters: transcribe_with_groq, transcribe_with_openai*)
(* and transcribe_with_whisper (transcriber/)                              *)
(***************************************************************************)

\* Longest segment list of a backend response in the adapter model.
MaxAsrSegs == 2

\* An attribute of a backend object: missing, None, or a value. Times are
\* numbers of seconds, written in milliseconds; texts are character lists.
Missing(default) == [kind |-> "missing", value |-> default]

IsNone(default) == [kind |-> "none", value |-> default]

Value(v) == [kind |-> "value", value |-> v]

\* float(getattr(seg, name, default) or default): a missing attribute, None
\* and zero give the default; float() of a number is its value
FloatAttrOr(attr, default) ==
    IF attr.kind = "value" /\ attr.value # 0 THEN attr.value ELSE default

\* str(getattr(seg, "text", "")): str(None) is the word None
StrAttr(attr) ==
    CASE attr.kind = "missing" -> << >>
      [] attr.kind = "none" -> << "N", "o", "n", "e" >>
      [] OTHER -> attr.value

\* The body of the loop over transcript.segments (transcribe_groq.py 45-48)
RemoteSegment(seg) ==
    LET start == FloatAttrOr(seg.start, 0)
        end == FloatAttrOr(seg.end, start)
    IN [start |-> start, end |-> end, text |-> Strip(StrAttr(seg.text))]

\* The dictionary appended for one segment of faster-whisper
\* (transcribe_local.py 38-44): (seg.text or "").strip()
LocalSegment(seg) ==
    LET start == FloatAttrOr(seg.start, 0)
    IN [start |-> start, end |-> FloatAttrOr(seg.end, start),
        text |-> IF seg.text.kind = "value" THEN Strip(seg.text.value) ELSE << >>]

AsrFailed(kind) == [error |-> kind, language |-> None, segments |-> << >>]

AsrReturned(language, segments) == [error |-> "none", language |-> language, segments |-> segments]

\* getattr(transcript, "language", None)
LanguageOf(response) ==
    IF response.language.kind = "value" THEN response.language.value ELSE None

\* From "segments = []" to the return of the remote adapters: the segments
\* of the response, or one segment with the stripped text of the response
remote_document(response) ==
    IF response.segments.kind = "value" /\ response.segments.value # << >>
    THEN AsrReturned(LanguageOf(response),
                     [i \in 1..Len(response.segments.value) |->
                          RemoteSegment(response.segments.value[i])])
    ELSE IF response.text.kind = "none" THEN AsrFailed("AttributeError")
    ELSE AsrReturned(LanguageOf(response),
                     << [start |-> 0, end |-> 0,
                         text |-> IF response.text.kind = "value"
                                  THEN Strip(response.text.value) ELSE << >>] >>)

\* client.audio.transcriptions.create(...) inside "with open(audio_path)"
remote_transcript(audio_exists, backend) ==
    IF ~ audio_exists THEN AsrFailed("FileNotFoundError")
    ELSE IF backend.raises THEN AsrFailed("APIError")
    ELSE remote_document(backend.response)

\* transcribe_with_groq(audio_path, config)
transcribe_with_groq(audio_exists, api_key, env_key, backend) ==
    IF ~ Truthy(api_key) /\ ~ Truthy(env_key) THEN AsrFailed("ValueError")
    ELSE remote_transcript(audio_exists, backend)

\* transcribe_with_openai(audio_path)
transcribe_with_openai(audio_exists, backend) == remote_transcript(audio_exists, backend)

\* transcribe_with_whisper(audio_path, config): response.segments is the
\* iterator model.transcribe returns, response.language belongs to its info
transcribe_with_whisper(audio_exists, backend) ==
    IF backend.raises THEN AsrFailed("RuntimeError")
    ELSE AsrReturned(LanguageOf(backend.response),
                     [i \in 1..Len(backend.response.segments.value) |->
                          LocalSegment(backend.response.segments.value[i])])

\* Segments a backend may report: complete, end missing, end None, end zero,
\* start None, start missing and end before 1.2 s, end smaller than start,
\* nothing but a text, text None, no text
BackendSegments ==
    { [start |-> Value(0), end |-> Value(1200), text |-> Value(<< " ", "H", "i" >>)],
      [start |-> Value(1200), end |-> Missing(0), text |-> Value(<< "y", "o" >>)],
      [start |-> Value(1200), end |-> IsNone(0), text |-> Value(<< "y", "o", " " >>)],
      [start |-> Value(1200), end |-> Value(0), text |-> Value(<< >>)],
      [start |-> IsNone(0), end |-> Value(1200), text |-> Value(<< "H", "i" >>)],
      [start |-> Missing(0), end |-> Value(600), text |-> Value(<< "H", "i" >>)],
      [start |-> Value(2600), end |-> Value(1200), text |-> Value(<< "H", "i" >>)],
      [start |-> Missing(0), end |-> Missing(0), text |-> Value(<< " ", "H", "i", " " >>)],
      [start |-> Value(1200), end |-> Value(2600), text |-> IsNone(<< >>)],
      [start |-> Value(1200), end |-> Value(2600), text |-> Missing(<< >>)] }

\* faster-whisper segments always have the three attributes
LocalSegments == { seg \in BackendSegments : \A k \in { "start", "end", "text" } : seg[k].kind # "missing" }

SegmentLists(pool) == UNION { [1..n -> pool] : n \in 0..MaxAsrSegs }

ResponseTexts == { Missing(<< >>), IsNone(<< >>), Value(<< >>), Value(<< " ", "H", "i", " " >>) }

Languages == { Missing(""), Value("en") }

RemoteResponses ==
    [segments : { Missing(<< >>), IsNone(<< >>) } \cup { Value(l) : l \in SegmentLists(BackendSegments) },
     text : ResponseTexts, language : Languages]

LocalResponses ==
    [segments : { Value(l) : l \in SegmentLists(LocalSegments) },
     text : { Missing(<< >>) }, language : Languages]

NoResponse == [segments |-> Missing(<< >>), text |-> Missing(<< >>), language |-> Missing("")]

AsrServices(responses) ==
    { [raises |-> TRUE, response |-> NoResponse] }
        \cup { [raises |-> FALSE, response |-> r] : r \in responses }

AsrCall(fn, audio_exists, api_key, env_key, backend) ==
    [fn |-> fn,
     input |-> [audio_exists |-> audio_exists, api_key |-> api_key, env_key |-> env_key,
                backend |-> backend],
     output |-> None, done |-> FALSE]

AsrInit ==
    /\ IdlePipeline
    /\ fs = EmptyFs
    /\ prior = [paths |-> {}, fetches |-> 0]
    /\ \/ \E backend \in AsrServices(RemoteResponses),
             k \in { << "gsk", "" >>, << "", "gsk" >>, << "", "" >> } :
              call = AsrCall("transcribe_with_groq", TRUE, k[1], k[2], backend)
       \/ \E backend \in AsrServices(RemoteResponses), audio_exists \in BOOLEAN :
              call = AsrCall("transcribe_with_openai", audio_exists, "", "gsk", backend)
       \/ \E backend \in AsrServices(LocalResponses) :
              call = AsrCall("transcribe_with_whisper", TRUE, "", "", backend)

CallTranscribeWithGroq ==
    /\ call.fn = "transcribe_with_groq"
    /\ ~ call.done
    /\ call' = [call EXCEPT !.done = TRUE,
                            !.output = transcribe_with_groq(call.input.audio_exists,
                                                            call.input.api_key,
                                                            call.input.env_key,
                                                            call.input.backend)]
    /\ UtilFrame
    /\ UNCHANGED fs

CallTranscribeWithOpenai ==
    /\ call.fn = "transcribe_with_openai"
    /\ ~ call.done
    /\ call' = [call EXCEPT !.done = TRUE,
                            !.output = transcribe_with_openai(call.input.audio_exists,
                                                              call.input.backend)]
    /\ UtilFrame
    /\ UNCHANGED fs

CallTranscribeWithWhisper ==
    /\ call.fn = "transcribe_with_whisper"
    /\ ~ call.done
    /\ call' = [call EXCEPT !.done = TRUE,
                            !.output = transcribe_with_whisper(call.input.audio_exists,
                                                               call.input.backend)]
    /\ UtilFrame
    /\ UNCHANGED fs

AsrNext == CallTranscribeWithGroq \/ CallTranscribeWithOpenai \/ CallTranscribeWithWhisper

SpecAsr == AsrInit /\ [][AsrNext]_vars

(***************************************************************************)
(* C29, C30: the documents of the transcription adapters (SpecAsr)         *)
(***************************************************************************)

RemoteCallDone ==
    call.fn \in { "transcribe_with_groq", "transcribe_with_openai" } /\ call.done

Response == call.input.backend.response

\* The response carries a non-empty segment list
CarriesSegments == Response.segments.kind = "value" /\ Response.segments.value # << >>

\* One {start, end, text} segment per backend segment, in the backend's
\* order: the i-th one has the i-th reported start and text
OnePerBackendSegment(segments, reported) ==
    /\ Len(segments) = Len(reported)
    /\ \A i \in 1..Len(segments) :
           /\ DOMAIN segments[i] = { "start", "end", "text" }
           /\ reported[i].start.kind = "value" => segments[i].start = reported[i].start.value
           /\ reported[i].text.kind = "value" => segments[i].text = Strip(reported[i].text.value)

\* The text a response without segments must be turned into: fallback(t) of
\* its text t, nothing when it has no text attribute
FallbackSegment(response, text) ==
    [start |-> 0, end |-> 0, text |-> IF response.text.kind = "value" THEN text ELSE << >>]

\* The backend answered the request: the API key is there, the audio file
\* could be opened and the request did not raise
BackendAnswered ==
    /\ call.fn = "transcribe_with_groq" =>
           Truthy(call.input.api_key) \/ Truthy(call.input.env_key)
    /\ call.input.audio_exists
    /\ ~ call.input.backend.raises

\* C29: whenever the backend answers, a remote adapter returns a document
\* whose segment list is never empty: one {start, end, text} segment per
\* backend segment, in order, when the response carries segments, and
\* otherwise exactly one segment with start 0, end 0 and the text of the
\* response (surrounding whitespace aside, as for the backend's segments).
C29_AlwaysReturnsSegments ==
    (RemoteCallDone /\ BackendAnswered) =>
        /\ call.output.error = "none"
        /\ call.output.segments # << >>
        /\ CarriesSegments =>
               OnePerBackendSegment(call.output.segments, Response.segments.value)
        /\ ~ CarriesSegments =>
               call.output.segments
                   = << FallbackSegment(Response, Strip(Response.text.value)) >>

\* C30: every segment a transcription adapter (local or remote) puts in the
\* document it returns satisfies 0 <= start <= end, whatever start and end
\* the backend reported.
C30_SegmentsHaveOrderedBounds ==
    (call.fn \in { "transcribe_with_groq", "transcribe_with_openai", "transcribe_with_whisper" }
     /\ call.done /\ call.output.error = "none") =>
        \A i \in 1..Len(call.output.segments) :
            /\ 0 <= call.output.segments[i].start
            /\ call.output.segments[i].start <= call.output.segments[i].end

(***************************************************************************)
(* C31: where the media is when audio extraction starts (Spec)             *)
(***************************************************************************)

\* C31: when ExtractAudio starts, the video path it is given is the media
\* file inside the Work Item's video/ directory; a fresh download was moved
\* there (it is no longer in the temporary download directory, so there is
\* one copy); a media file the run found in video/ was not downloaded again
\* and is what the download step returned, so nothing was moved over it.
C31_MediaIsInVideoDirAtExtraction ==
    /\ pc = "acquired" =>
           /\ loc.video_path = WorkVideo
           /\ Exists(fs, WorkVideo)
           /\ ~ Exists(fs, TmpVideo)
           /\ WorkVideo \notin prior.paths =>
                  loc.dl_video_path = TmpVideo /\ fetches = prior.fetches + 1
           /\ WorkVideo \in prior.paths =>
                  loc.dl_video_path = WorkVideo /\ fetches = prior.fetches
    /\ "ExtractAudio" \in Called =>
           /\ args.extract_video = WorkVideo
           /\ Exists(fs, WorkVideo)
           /\ ~ Exists(fs, TmpVideo)

C31_FreshDownloadWasMoved ==
    /\ "ExtractAudio" \in Called
    /\ WorkVideo \notin prior.paths
    /\ loc.dl_video_path = TmpVideo
    /\ args.extract_video = WorkVideo
    /\ fs[WorkVideo] = "media"
    /\ ~ Exists(fs, TmpVideo)
    /\ fetches = 1

(***************************************************************************)
(* C32: the translation stage of a configuration run (Spec)                *)
(***************************************************************************)

\* C32: a configuration run with translation active (translator enabled, a
\* target language, llm backend groq) in which no adapter raises calls the
\* Translation adapter once on the prior stage's segments, writes
\* translated_<lang_code>.json (with the configured target_language) and the
\* matching .srt, and goes on to RenderSubtitles without error.
C32_ActiveTranslationWritesArtifacts ==
    (entry = "config" /\ TranslationActive /\ config.llm_backend = "groq"
     /\ Finished /\ raised = {}) =>
        /\ Calls("Translate") = 1
        /\ args.translate_segments = loc.segments_for_next_step
        /\ Exists(fs, TranslatedJson(config.target_language))
        /\ fs[TranslatedJson(config.target_language)].target_language = config.target_language
        /\ Exists(fs, TranslatedSrt(config.target_language))
        /\ "RenderSubtitles" \in Called
        /\ ~ Aborted

(***************************************************************************)
(* C33: the configuration a command line hands to the pipeline (SpecCli)   *)
(***************************************************************************)

\* C33: every configuration main.py or pipeline/run.py passes to
\* run_pipeline_with_config has an ASR backend in {local, groq}, a subtitle
\* mode in {soft, burn} and a box opacity in [0.0, 1.0], also after the
\* command-line overrides were merged into the loaded configuration.
C33_PipelineGetsValidConfig ==
    (call.fn \in { "main", "run_main" } /\ call.done
     /\ call.output.started = "run_pipeline_with_config") =>
        /\ call.output.config.asr.backend \in { "local", "groq" }
        /\ call.output.config.subtitles.mode \in { "soft", "burn" }
        /\ 0 <= call.output.config.subtitles.box_opacity
        /\ call.output.config.subtitles.box_opacity <= 10

(***************************************************************************)
(* burn_subtitles (src/utils/ffmpeg_utils.py, lines 45-135)                *)
(***************************************************************************)

\* Most segments of a subtitle file handed to burn_subtitles.
MaxCues == 2

\* The element of a one-element set: Only({ e(x) : x \in { v } }) is e(v)
\* with v worked out once
Only(S) == CHOOSE x \in S : TRUE

\* str.strip() on the whitespace of a subtitle file: blank and newline
RECURSIVE StripWs(_)
StripWs(str) ==
    Only({ IF s # << >> /\ s[1] \in { " ", "\n" } THEN StripWs(SubSeq(s, 2, Len(s)))
           ELSE IF s # << >> /\ s[Len(s)] \in { " ", "\n" }
           THEN StripWs(SubSeq(s, 1, Len(s) - 1))
           ELSE s : s \in { str } })

\* str.find(sep) + 1: where the first occurrence of sep starts, 0 for none
FindSeq(str, sep) ==
    LET at == { i \in 1..(Len(str) - Len(sep) + 1) : SubSeq(str, i, i + Len(sep) - 1) = sep }
    IN IF at = {} THEN 0 ELSE CHOOSE i \in at : \A j \in at : i <= j

\* str.split(sep) for a separator of any length
RECURSIVE SplitOn(_, _)
SplitOn(str, sep) ==
    Only({ IF i = 0 THEN << s >>
           ELSE << SubSeq(s, 1, i - 1) >> \o SplitOn(SubSeq(s, i + Len(sep), Len(s)), sep) :
               << s, i >> \in { << str, FindSeq(str, sep) >> } })

\* text.replace('<', '').replace('>', '')
WithoutTags(text) == SelectSeq(text, LAMBDA c : c \notin { "<", ">" })

HexDigits == << "0", "1", "2", "3", "4", "5", "6", "7", "8", "9", "A", "B", "C", "D", "E", "F" >>

\* str(n) in base sixteen, upper case, for n >= 0
RECURSIVE HexOf(_)
HexOf(n) ==
    IF n < 16 THEN << HexDigits[n + 1] >> ELSE HexOf(n \div 16) \o << HexDigits[(n % 16) + 1] >>

\* Lines 70-71: f"{int(box_opacity * 255):02X}", the opacity given in tenths
alpha_hex(box_opacity) == ZeroPad(HexOf(FloatMulInt(FloatDiv(box_opacity, 10), 255).int), 2)

Dialogue(start, end, text) == [start |-> start, end |-> end, text |-> text]

\* Lines 102-122 for the lines of a block that has a time line with an arrow
TimedEvent(parts, times) ==
    LET start == srt_time_to_ass_time(times[1])
        end == srt_time_to_ass_time(times[2])
    IN IF Len(times) # 2 THEN Raises("ValueError")
       ELSE IF start.error # "none" \/ end.error # "none" THEN Raises("ValueError")
       ELSE Returns(<< Dialogue(start.value, end.value,
                                WithoutTags(Join(SubSeq(parts, 3, Len(parts)),
                                                 << "\\", "N" >>))) >>)

\* Lines 93-122 for one block: nothing, one Dialogue event, or ValueError
\* (a time line with two arrows, a time srt_time_to_ass_time cannot read)
BlockEvent(block) ==
    Only({ IF StripWs(block) = << >> THEN Returns(<< >>)
           ELSE IF Len(parts) < 3 THEN Returns(<< >>)
           ELSE IF FindSeq(parts[2], Arrow) = 0 THEN Returns(<< >>)
           ELSE Only({ TimedEvent(parts, times) : times \in { SplitOn(parts[2], Arrow) } }) :
               parts \in { SplitOn(block, << "\n" >>) } })

\* The loop of line 92: [error, events written before the loop ended]
RECURSIVE BlockEvents(_)
BlockEvents(blocks) ==
    IF blocks = << >> THEN [error |-> "none", events |-> << >>]
    ELSE Only({ IF before.error # "none" THEN before
                ELSE IF last.error # "none"
                THEN [error |-> last.error, events |-> before.events]
                ELSE [error |-> "none", events |-> before.events \o last.value] :
                    before \in { BlockEvents(SubSeq(blocks, 1, Len(blocks) - 1)) },
                    last \in { BlockEvent(blocks[Len(blocks)]) } })

\* Lines 91-122: srt_content.strip().split('\n\n') and the loop over it
ass_events(srt_content) ==
    Only({ BlockEvents(blocks) :
               blocks \in { SplitOn(StripWs(srt_content), << "\n", "\n" >>) } })


BurnResult(error, f) == [error |-> error, fs |-> f]

\* The video ffmpeg writes: the input with the events of the script
Burned(f, input_video, script) ==
    [video |-> f[input_video], alpha |-> script.alpha, events |-> script.events]

\* What follows the reading of the subtitle file: the events written until
\* the loop ended stay in the temporary file when the conversion raised
\* (lines 92-122 are outside the try); the try of lines 124-135 runs ffmpeg
\* and its finally removes the temporary file
AfterScript(f, input_video, output_path, alpha, conv, ffmpeg_ok) ==
    LET script == [alpha |-> alpha, events |-> conv.events]
        written == WriteFile(f, TempAss, script)
    IN IF conv.error # "none" THEN BurnResult(conv.error, written)
       ELSE IF ~ ffmpeg_ok THEN BurnResult("RuntimeError", RemoveFile(written, TempAss))
       ELSE BurnResult("none",
                       RemoveFile(WriteFile(written, output_path,
                                            Burned(f, input_video, script)),
                                  TempAss))

\* burn_subtitles(input_video, srt_file, output_path, box_opacity): the
\* temporary file is created before the subtitle file is opened.
\* ffmpeg_ok: whether the command exits with status 0.
burn_subtitles(f, input_video, srt_file, output_path, box_opacity, ffmpeg_ok) ==
    IF ~ Exists(f, srt_file)
    THEN BurnResult("FileNotFoundError",
                    WriteFile(f, TempAss, [alpha |-> << >>, events |-> << >>]))
    ELSE Only({ AfterScript(f, input_video, output_path, alpha, conv, ffmpeg_ok) :
                    alpha \in { alpha_hex(box_opacity) },
                    conv \in { ass_events(f[srt_file]) } })

Cue(start, end, text) ==
    [has |-> { "start", "end", "text" }, start |-> start, end |-> end, text |-> text]

\* Segments of a subtitle file: plain text, empty text, text with a tag,
\* text of two lines, a time beyond the hour
Cues ==
    { Cue(0, 1200, << "H", "i" >>),
      Cue(1200, 2600, << >>),
      Cue(1200, 2600, << "y", "o" >>),
      Cue(2600, 4009, << "<", "i", ">", "a", "<", "/", "i", ">" >>),
      Cue(2600, 4000, << "a", "\n", "b" >>),
      Cue(3661500, 3662000, << "H", "i" >>) }

CueLists == UNION { [1..n -> Cues] : n \in 0..MaxCues }

\* Subtitle files write_srt did not write: a time that is no time, a time
\* line with two arrows after a good block
ForeignSrts ==
    { Join(<< << "1" >>, << "x" >> \o Arrow \o << "y" >>, << "H", "i" >> >>, << "\n" >>),
      Join(<< << "1" >>, seconds_to_srt_time(SecondsOf(0)) \o Arrow
                             \o seconds_to_srt_time(SecondsOf(1200)),
              << "H", "i" >>, << >>,
              << "2" >>, << "0" >> \o Arrow \o << "1" >> \o Arrow \o << "2" >>,
              << "y", "o" >> >>, << "\n" >>) }

BurnFs == WriteFile(MakeDirs(EmptyFs, { "tmp" }), WorkVideo, "media")

BurnCall(segments, written, box_opacity, ffmpeg_ok) ==
    [fn |-> "burn_subtitles",
     input |-> [segments |-> segments, written |-> written, box_opacity |-> box_opacity,
                ffmpeg_ok |-> ffmpeg_ok],
     output |-> None, done |-> FALSE]

\* The subtitle file is one write_srt wrote from the segments of the call, a
\* foreign one, or missing
BurnInit ==
    /\ IdlePipeline
    /\ \E box_opacity \in { 0, 6, 10 }, ffmpeg_ok \in BOOLEAN :
           \/ \E segments \in CueLists :
                  /\ fs = write_srt(BurnFs, SrtOut, segments)
                  /\ call = BurnCall(segments, TRUE, box_opacity, ffmpeg_ok)
           \/ \E text \in ForeignSrts :
                  /\ fs = WriteFile(BurnFs, SrtOut, text)
                  /\ call = BurnCall(<< >>, FALSE, box_opacity, ffmpeg_ok)
           \/ /\ fs = BurnFs
              /\ call = BurnCall(<< >>, FALSE, box_opacity, ffmpeg_ok)
    /\ prior = [paths |-> DOMAIN fs, fetches |-> 0]

CallBurnSubtitles ==
    /\ call.fn = "burn_subtitles"
    /\ ~ call.done
    /\ \E r \in { burn_subtitles(fs, WorkVideo, SrtOut, BurnedVideo, call.input.box_opacity,
                               call.input.ffmpeg_ok) } :
           /\ fs' = r.fs
           /\ call' = [call EXCEPT !.done = TRUE, !.output = r.error]
    /\ UtilFrame

BurnNext == CallBurnSubtitles

SpecBurn == BurnInit /\ [][BurnNext]_vars

(***************************************************************************)
(* C34, C38: the events and the temporary file of burn_subtitles (SpecBurn)*)
(***************************************************************************)

BurnCallDone == call.fn = "burn_subtitles" /\ call.done

\* The segments with a non-empty text of one line
SingleLineCues(segments) ==
    SelectSeq(segments, LAMBDA seg : Strip(seg.text) # << >> /\ Count(seg.text, "\n") = 0)

\* The time of a segment as the rendering script shows it
AssTimeOf(ms) == srt_time_to_ass_time(seconds_to_srt_time(SecondsOf(ms))).value

\* The events hold the cues in order: an increasing choice of events whose
\* i-th one has the start and end of the i-th cue
HoldsInOrder(events, cues) ==
    \E g \in [1..Len(cues) -> 1..Len(events)] :
        /\ \A i, j \in 1..Len(cues) : i < j => g[i] < g[j]
        /\ \A i \in 1..Len(cues) :
               /\ events[g[i]].start = AssTimeOf(cues[i].start)
               /\ events[g[i]].end = AssTimeOf(cues[i].end)

\* C34: when burn_subtitles renders a subtitle file write_srt wrote, every
\* segment with a non-empty single-line text has its own Dialogue event in
\* the script ffmpeg gets, in segment order and with the segment's start and
\* end, also when the segment follows one with an empty text; no segment
\* has more than one event.
C34_EverySegmentHasItsEvent ==
    (BurnCallDone /\ call.input.written /\ call.output = "none") =>
        LET events == fs[BurnedVideo].events
        IN /\ HoldsInOrder(events, SingleLineCues(call.input.segments))
           /\ Len(events) <= Len(call.input.segments)

\* C38: burn_subtitles leaves no temporary .ass file behind, however it
\* ends: normally, with the ffmpeg command failing, or with an error while
\* the subtitle file is read or converted.
C38_NoTemporaryFileIsLeft ==
    BurnCallDone => ~ Exists(fs, TempAss)

(***************************************************************************)
(* C36: the legacy command line of pipeline/run.py (SpecCli)               *)
(***************************************************************************)

OrDefault(flag, default) == IF flag = None THEN default ELSE flag

\* C36: without --config, pipeline/run.py calls run_pipeline with the
\* default of every omitted flag (asr_backend local, llm_backend groq,
\* subtitle_mode soft, box_opacity 0.6), never with None.
C36_OmittedFlagsGetDefaults ==
    (call.fn = "run_main" /\ call.done /\ call.output.started = "run_pipeline") =>
        LET flags == call.input.flags
            kwargs == call.output.kwargs
        IN /\ kwargs.asr_backend = OrDefault(flags.asr_backend, "local")
           /\ kwargs.llm_backend = OrDefault(flags.llm_backend, "groq")
           /\ kwargs.subtitle_mode = OrDefault(flags.subtitle_mode, "soft")
           /\ kwargs.box_opacity.given
           /\ kwargs.box_opacity.value
                  = (IF flags.box_opacity.given THEN flags.box_opacity.value ELSE 6)

(***************************************************************************)
(* C35: the legacy entry point against the configuration entry point       *)
(***************************************************************************)

\* The Configuration that carries the legacy parameters: Config() with
\* asr.backend, llm.backend, subtitles.mode and translator.target_language
\* set, the enhancer enabled and the translator enabled exactly when a
\* target language is given.  `separation` is "absent" on such a Config; the
\* other values are a Configuration to which the caller attached the
\* attribute.
ConfigCarrying(legacy, separation) ==
    [ legacy EXCEPT !.enhancer_enabled = TRUE,
                    !.translator_enabled = Truthy(legacy.target_language),
                    !.separation = separation ]

\* What is kept of the legacy run to compare the second run with.
LegacyOutcome ==
    [ paths |-> prior.paths, fetches |-> fetches, callLog |-> callLog,
      raised |-> raised, returned |-> pc = "returned",
      final_srt |-> loc.final_srt_path, manifest_keys |-> DOMAIN manifest ]

\* run_pipeline(url, ...) has returned or raised; run_pipeline_with_config is
\* then called for the same URL with the Configuration carrying the same
\* settings, on the Work Item as it was before the legacy run.
CallWithConfig ==
    /\ entry = "legacy"
    /\ pc \in { "returned", "aborted" }
    /\ entry' = "config"
    /\ \E separation \in SeparationAttrs : config' = ConfigCarrying(config, separation)
    /\ prior' = LegacyOutcome
    /\ fs' = Only({ f \in InitialFileSystems : DOMAIN f = prior.paths })
    /\ run' = run + 1
    /\ fetches' = 0
    /\ pc' = "start"
    /\ err' = NoErr
    /\ raised' = {}
    /\ callLog' = << >>
    /\ args' = InitArgs
    /\ loc' = InitLoc
    /\ manifest' = NoManifest
    /\ UNCHANGED << caller, exitCode, printed, call >>

InitBoth == Init /\ entry = "legacy" /\ caller = "api"

NextBoth ==
    \/ LegacyAcquire \/ LegacyExtractAudio \/ LegacySeparateAudio \/ LegacyTranscribe
    \/ LegacyEnhance \/ LegacyTranslate \/ LegacyRenderSubtitles
    \/ CallWithConfig
    \/ Acquire \/ ExtractAudio \/ SeparateAudio \/ Transcribe
    \/ Enhance \/ Translate \/ RenderSubtitles

SpecBoth == InitBoth /\ [][NextBoth]_vars

\* The settings the comparison is about, on the default Configuration
ComparedSettings ==
    /\ config.asr_backend \in { "local", "groq" }
    /\ config.llm_backend = "groq"
    /\ config.subtitles_mode \in SubtitleModes
    /\ config.box_opacity.given
    /\ config.separation = "absent"
    /\ ~ config.env_separation

\* C35: for the same URL and settings, when no adapter fails in either run,
\* run_pipeline_with_config executes the stages the legacy run_pipeline
\* executed, selects the same final subtitle source and returns a manifest
\* with the same keys.
C35_BothEntriesRunAlike ==
    ( /\ entry = "config" /\ run = 2 /\ Finished
      /\ ComparedSettings
      /\ prior.raised = {} /\ raised = {} ) =>
        /\ callLog = prior.callLog
        /\ loc.final_srt_path = prior.final_srt
        /\ (pc = "returned") = prior.returned
        /\ DOMAIN manifest = prior.manifest_keys

(***************************************************************************)
(* The process-wide configuration (config.py lines 285-313)                *)
(***************************************************************************)

\* Most get_config / set_config calls of one process in the model.
MaxConfigCalls == 3

\* A Config object: who constructed it, the how-manyeth object of that
\* origin it is, and its field values.  Two objects with the same values are
\* still two instances.
Instance(origin, serial, value) == [origin |-> origin, serial |-> serial, value |-> value]

\* _global_config = None
NoInstance == Instance("None", 0, EmptyDict)

\* load_config(None) reads config.yaml next to the package
DefaultConfigPath == "src/config.yaml"

ResolvedPath(config_path) == IF config_path = None THEN DefaultConfigPath ELSE config_path

GetConfigResult(error, returned, global, loads) ==
    [error |-> error, returned |-> returned, global |-> global, loads |-> loads]

\* Mutant of get_config: every call loads the file anew and replaces the
\* global instance.
get_config_Reloads(global, loads, f, config_path, env) ==
    Only({ IF loaded.error # "none"
           THEN GetConfigResult(loaded.error, NoInstance, global, loads)
           ELSE Only({ GetConfigResult("none", made, made, loads + 1) :
                         made \in { Instance("get_config", loads + 1, loaded.value) } }) :
           loaded \in { load_config(f[ResolvedPath(config_path)], env) } })

\* get_config(config_path) with _global_config = global, after get_config had
\* `loads` Config objects built by load_config: the error raised, the object
\* returned, and _global_config afterwards.
get_config(global, loads, f, config_path, env) ==
    IF global = NoInstance
    THEN Only({ IF loaded.error # "none"
                THEN GetConfigResult(loaded.error, NoInstance, global, loads)
                ELSE Only({ GetConfigResult("none", made, made, loads + 1) :
                              made \in { Instance("get_config", loads + 1, loaded.value) } }) :
                loaded \in { load_config(f[ResolvedPath(config_path)], env) } })
    ELSE GetConfigResult("none", global, global, loads)

\* set_config(config): _global_config afterwards
set_config(global, instance) == instance

\* save_config(config, config_path), lines 255-282: the file at the path is
\* created or overwritten with the YAML dump of every field of the Config.
save_config(f, value, config_path) ==
    [f EXCEPT ![config_path] = [exists |-> TRUE, valid_yaml |-> TRUE, data |-> value]]

\* What stands at a configuration path
GlobalFiles ==
    { [exists |-> FALSE, valid_yaml |-> TRUE, data |-> EmptyDict],
      [exists |-> TRUE, valid_yaml |-> FALSE, data |-> EmptyDict],
      [exists |-> TRUE, valid_yaml |-> TRUE, data |-> EmptyDict],
      [exists |-> TRUE, valid_yaml |-> TRUE, data |-> [subtitles |-> [mode |-> "burn"]]],
      [exists |-> TRUE, valid_yaml |-> TRUE, data |-> [asr |-> [backend |-> "remote"]]] }

ConfigPathArgs == { None, "other.yaml" }

\* Config objects the caller constructed itself and hands to set_config
CallerConfigs ==
    { Instance("Config", k, NewConfig(kwargs, "").value) :
        k \in 1..2,
        kwargs \in { EmptyDict, [subtitles |-> [SubtitleConfig EXCEPT !.mode = "burn"]] } }

\* The process state is kept in `call`: the last call, _global_config, the
\* number of Config objects get_config had load_config build, the number of
\* Config objects the caller loaded itself, and the number of calls made.
GlobalCall(fn, input, error, returned, global, loads, calls) ==
    [fn |-> fn, input |-> input, output |-> [error |-> error, returned |-> returned],
     done |-> TRUE, global |-> global, loads |-> loads, own |-> call.own, calls |-> calls]

\* Config objects the caller holds: those it constructed, the one the
\* previous call returned, and the global one.
HeldConfigs ==
    CallerConfigs \cup ({ call.output.returned, call.global } \ { NoInstance })

GlobalInit ==
    /\ IdlePipeline
    /\ prior = [paths |-> {}, fetches |-> 0]
    /\ fs \in [ { ResolvedPath(p) : p \in ConfigPathArgs } -> GlobalFiles ]
    /\ call = [fn |-> "none", input |-> [path |-> None, env |-> "", instance |-> NoInstance],
               output |-> [error |-> "none", returned |-> NoInstance],
               done |-> FALSE, global |-> NoInstance, loads |-> 0, own |-> 0, calls |-> 0]

CallGetConfig ==
    /\ call.calls < MaxConfigCalls
    /\ \E config_path \in ConfigPathArgs, env \in EnvKeys :
         \E r \in { get_config(call.global, call.loads, fs, config_path, env) } :
            call' = GlobalCall("get_config",
                               [path |-> config_path, env |-> env, instance |-> NoInstance],
                               r.error, r.returned, r.global, r.loads, call.calls + 1)
    /\ UNCHANGED fs
    /\ UtilFrame

CallSetConfig ==
    /\ call.calls < MaxConfigCalls
    /\ \E instance \in HeldConfigs :
         call' = GlobalCall("set_config", [path |-> None, env |-> "", instance |-> instance],
                            "none", NoInstance, set_config(call.global, instance),
                            call.loads, call.calls + 1)
    /\ UNCHANGED fs
    /\ UtilFrame

\* save_config(config, config_path) for a Config the caller holds
CallSaveConfig ==
    /\ call.calls < MaxConfigCalls
    /\ \E instance \in HeldConfigs, config_path \in DOMAIN fs :
         /\ fs' = save_config(fs, instance.value, config_path)
         /\ call' = GlobalCall("save_config",
                               [path |-> config_path, env |-> "", instance |-> instance],
                               "none", NoInstance, call.global, call.loads, call.calls + 1)
    /\ UtilFrame

\* load_config(config_path) called by the program itself: a new Config object
\* each time, _global_config is not touched
CallLoadConfigPath ==
    /\ call.calls < MaxConfigCalls
    /\ \E config_path \in ConfigPathArgs, env \in EnvKeys :
         \E loaded \in { load_config(fs[ResolvedPath(config_path)], env) } :
            call' = IF loaded.error # "none"
                    THEN GlobalCall("load_config",
                                    [path |-> config_path, env |-> env, instance |-> NoInstance],
                                    loaded.error, NoInstance, call.global, call.loads,
                                    call.calls + 1)
                    ELSE [ GlobalCall("load_config",
                                      [path |-> config_path, env |-> env,
                                       instance |-> NoInstance],
                                      "none", Instance("load_config", call.own + 1, loaded.value),
                                      call.global, call.loads, call.calls + 1)
                           EXCEPT !.own = call.own + 1 ]
    /\ UNCHANGED fs
    /\ UtilFrame

GlobalNext == CallGetConfig \/ CallSetConfig \/ CallSaveConfig \/ CallLoadConfigPath

SpecGlobal == GlobalInit /\ [][GlobalNext]_vars

(***************************************************************************)
(* C37: the configuration is loaded at most once (SpecGlobal)              *)
(***************************************************************************)

GetConfigStep == call'.fn = "get_config" /\ call'.calls = call.calls + 1

SetConfigStep == call'.fn = "set_config" /\ call'.calls = call.calls + 1

\* C37: load_config builds at most one Config for get_config; once the global
\* configuration is set (by a successful get_config or by set_config(c)) every
\* get_config call returns that very instance whatever path it is given and
\* leaves it in place; set_config(c) makes c the global configuration; a
\* get_config call whose load fails leaves the global configuration unset.
C37_GlobalConfigIsLoadedOnce ==
    [][ /\ call'.loads <= 1
        /\ (GetConfigStep /\ call.global # NoInstance) =>
              /\ call'.output.error = "none"
              /\ call'.output.returned = call.global
              /\ call'.global = call.global
        /\ (GetConfigStep /\ call.global = NoInstance /\ call'.output.error = "none") =>
              /\ call'.output.returned.origin = "get_config"
              /\ call'.global = call'.output.returned
        /\ (GetConfigStep /\ call'.output.error # "none") => call'.global = NoInstance
        /\ SetConfigStep => call'.global = call'.input.instance
        /\ (call'.fn \in { "save_config", "load_config" }) => call'.global = call.global
      ]_vars

\* get_config returned the instance an earlier call loaded although the file
\* at the path it was given cannot be loaded.
C37_LaterCallGotTheLoadedInstance ==
    /\ call.fn = "get_config"
    /\ call.calls >= 2
    /\ call.loads = 1
    /\ call.output.error = "none"
    /\ call.output.returned = call.global
    /\ call.global.origin = "get_config"
    /\ load_config(fs[ResolvedPath(call.input.path)], call.input.env).error # "none"

====
